---- MODULE Spec2Model ----
(***************************************************************************)
(* A model of the account/credential engine of the gateway:                *)
(*   - app/models/account.py     Account (expiry, cooldown, availability)  *)
(*   - app/core/account_pool.py  AccountPool (round-robin, error handling) *)
(*   - app/routes/admin.py       delete_account (administrative removal)   *)
(*   - app/core/token_manager.py TokenManager (single-flight JWT refresh)  *)
(*   - app/core/gemini_client.py GeminiClient (session cache, send retry)  *)
(* Time is the value of time.time(), in whole seconds.                     *)
(***************************************************************************)
EXTENDS Integers, Sequences, FiniteSets, TLC

VARIABLES
    accounts,        \* AccountPool.accounts: the ordered account sequence
    current_index,   \* AccountPool._current_index (0-based)
    acct,            \* the mutable fields of every Account object
    now,             \* time.time()
    lastOp,          \* what the last pool operation returned
    pristine,        \* the pool is as built: so far it was only filled, then
                     \* every acquire found its first candidate available
    streak,          \* per account: the error reports with a code other than
                     \* 401, 403 and 429 made on it since it was constructed,
                     \* as long as no other code was reported on it and no
                     \* availability test found it expired; -1 afterwards
    before_report,   \* the fields the reported account had when the last
                     \* handle_error was called, while that call is the
                     \* last pool operation
    jwt_token,       \* TokenManager.jwt_token
    token_expires_at,\* TokenManager.token_expires_at
    xsrf_token,      \* TokenManager.xsrf_token
    key_id,          \* TokenManager.key_id
    refresh_lock,    \* TokenManager._refresh_lock: its holder, then its waiters
    pc,              \* where every caller of get_token() is
    call,            \* what every caller found when it called get_token()
    lastReturn,      \* what the last get_token() to finish returned, and to whom
    given,           \* the token handed out for the current refresh generation
    refreshes,       \* successful refreshes so far
    calls,           \* get_token() calls so far
    lastRefresh,     \* how the last secret fetch was answered
    session_name,    \* GeminiClient._session_name: 0 is None, k the k-th session
    sessions,        \* backend sessions created so far
    send_pc,         \* whether a send_message_with_retry call is running
    send_call,       \* its arguments and locals: max_retries, stream, attempt,
                     \* last_error
    history,         \* what every attempt of the call met
    send_result,     \* what the last call returned or raised
    sends,           \* send_message_with_retry and upload_file calls so far
    posted,          \* the session names carried by the message and upload
                     \* payloads posted so far, with the kind of request
    seen401,         \* whether a request of the client was answered with 401
    lastReq,         \* the last request an endpoint handled: the endpoint, the
                     \* outcome of its acquire, what the client call met, the
                     \* error reports it made to the pool and the HTTP status
                     \* it answered with
    config_doc,      \* the configuration file ConfigLoader reads
    load_result,     \* what the last load_accounts() returned or raised
    resp_chunks,     \* the decoded objects of one backend response
    stream_out,      \* what _stream_response yielded for it
    complete_out,    \* what _get_complete_response returned for it
    array_doc,       \* the JSON array a response body consists of: its text
                     \* and its elements
    fed,             \* how many characters of it were fed to the decoder
    decoder          \* the incremental decoder: buffer, depth, in-string and
                     \* escape flags, and the elements it has yielded

poolVars == <<accounts, current_index, acct, lastOp, pristine, streak, before_report>>

tokenVars == <<jwt_token, token_expires_at, xsrf_token, key_id, refresh_lock,
               pc, call, lastReturn, given, refreshes, calls, lastRefresh>>

clientVars == <<session_name, sessions, send_pc, send_call, history,
                send_result, sends, posted, seen401>>

routeVars == <<lastReq>>

configVars == <<config_doc, load_result>>

decodeVars == <<resp_chunks, stream_out, complete_out>>

parserVars == <<array_doc, fed, decoder>>

pureVars == <<configVars, decodeVars, parserVars>>

otherVars == <<routeVars, pureVars>>

exceptConfig == <<now, poolVars, tokenVars, clientVars, routeVars, decodeVars, parserVars>>

exceptDecode == <<now, poolVars, tokenVars, clientVars, routeVars, configVars, parserVars>>

exceptParser == <<now, poolVars, tokenVars, clientVars, routeVars, configVars, decodeVars>>

vars == <<accounts, current_index, acct, now, lastOp, pristine, streak, before_report,
          jwt_token, token_expires_at, xsrf_token, key_id, refresh_lock,
          pc, call, lastReturn, given, refreshes, calls, lastRefresh,
          session_name, sessions, send_pc, send_call, history,
          send_result, sends, posted, seen401, lastReq,
          config_doc, load_result, resp_chunks, stream_out, complete_out,
          array_doc, fed, decoder>>

----------------------------------------------------------------------------
(* Bounds of the model *)

MaxDays == 29         \* clock advances of one day, expiry-warning runs
MaxTicks == 2         \* clock advances of TickSeconds
MaxErrors == 1        \* error reports in all, rotation runs
MaxRequests == 4      \* successful acquires in all, rotation runs
LifeErrors == 6       \* error reports in all, lifecycle runs
LifeRequests == 2     \* successful acquires in all, lifecycle runs
MaxCalls == 3         \* get_token() calls in all, token runs
MaxTokenSeconds == 400 \* seconds of clock in the token runs
MaxSends == 2         \* send_message_with_retry calls in all, client runs
MaxChunks == 3        \* decoded objects of a backend response
MaxElements == 2      \* elements of a streamed JSON array
MaxLine == 29         \* characters of a line of a response body
MaxEntries == 3       \* account entries of a configuration document
RouteRequests == 2    \* requests handled in all, endpoint runs
SkipRequests == 6     \* successful acquires in all, skipping runs

(* Program constants *)

DaySeconds == 86400
TrialDays == 30
Cooldown401 == 7200
Cooldown403 == 7200
Cooldown429 == 14400
ErrorThreshold == 5
token_validity_seconds == 300
refresh_before_seconds == 30
MAX_RETRIES == 3

\* The 30-day trial period in seconds
TrialSeconds == TrialDays * DaySeconds
WarnTrialSeconds == 2592000
WarnBelowDays == 3

\* The instant the pool is built, and the step of the clock in the pool runs
Now0 == TrialSeconds
TickSeconds == Cooldown401

\* The account objects that exist
Ids == {1, 2, 3}

ACTIVE == "active"
COOLDOWN_401 == "cooldown_401"
COOLDOWN_403 == "cooldown_403"
COOLDOWN_429 == "cooldown_429"
EXPIRED == "expired"
ERROR == "error"

CooldownStatuses == {COOLDOWN_401, COOLDOWN_403, COOLDOWN_429}

StatusCodes == {401, 403, 429, 500}

\* The codes reported in the runs with several accounts
RotationCodes == {429, 500}

----------------------------------------------------------------------------
(* Account *)

\* The configured timestamps of the account objects: account 2 reaches the
\* 30-day age one clock step after the pool is built, account 3 carries an
\* explicit expiry at that same instant (and so is expired only after it),
\* the others are one day old.
created_at(a) == IF a = 2 THEN Now0 + TickSeconds - TrialSeconds
                 ELSE Now0 - DaySeconds

expires_at(a) == IF a = 3 THEN Now0 + TickSeconds ELSE 0

\* Account.__init__: the runtime fields of a new account
NewAccount == [status |-> ACTIVE, cooldown_until |-> 0, request_count |-> 0,
               error_count |-> 0, last_used_at |-> 0]

\* Account.is_expired
is_expired(a, t) ==
    IF expires_at(a) # 0
    THEN t > expires_at(a)
    ELSE (t - created_at(a)) >= TrialDays * DaySeconds

\* int(): the integer part of n / d, rounded toward zero
TruncDiv(n, d) == IF n >= 0 THEN n \div d ELSE -((-n) \div d)

\* Account.get_remaining_days: the whole days left, 0 when none is
get_remaining_days(a, t) ==
    LET remaining_seconds == IF expires_at(a) # 0
                             THEN expires_at(a) - t
                             ELSE WarnTrialSeconds - (t - created_at(a))
        remaining_days == TruncDiv(remaining_seconds, DaySeconds)
    IN  IF remaining_days > 0 THEN remaining_days ELSE 0

\* a warning that starts at three days left
should_warn_expiry_from_three(a, t) ==
    0 < get_remaining_days(a, t) /\ get_remaining_days(a, t) <= WarnBelowDays

\* Account.should_warn_expiry
should_warn_expiry(a, t) ==
    0 < get_remaining_days(a, t) /\ get_remaining_days(a, t) < WarnBelowDays

\* is_in_cooldown with the deadline itself still counted as cooldown
is_in_cooldown_strict(acc, t) ==
    IF acc.cooldown_until = 0 THEN FALSE
    ELSE IF t > acc.cooldown_until THEN FALSE
    ELSE TRUE

\* Account.is_in_cooldown: the value returned
is_in_cooldown(acc, t) ==
    IF acc.cooldown_until = 0 THEN FALSE
    ELSE IF t >= acc.cooldown_until THEN FALSE
    ELSE TRUE

\* is_in_cooldown clearing an elapsed deadline and leaving the status
after_cooldown_check_keeping_status(acc, t) ==
    IF acc.cooldown_until = 0 THEN acc
    ELSE IF t >= acc.cooldown_until THEN [acc EXCEPT !.cooldown_until = 0]
    ELSE acc

\* Account.is_in_cooldown: the account after the call (an elapsed cooldown
\* is cleared and a cooldown status goes back to active)
after_cooldown_check(acc, t) ==
    IF acc.cooldown_until = 0 THEN acc
    ELSE IF t >= acc.cooldown_until
         THEN [acc EXCEPT !.cooldown_until = 0,
                          !.status = IF acc.status \in CooldownStatuses
                                     THEN ACTIVE ELSE acc.status]
         ELSE acc

\* is_available without the status test
is_available_any_status(a, acc, t) ==
    IF is_expired(a, t) THEN FALSE
    ELSE ~is_in_cooldown(acc, t)

\* is_available without the cooldown test
is_available_any(a, acc, t) ==
    IF is_expired(a, t) THEN FALSE
    ELSE acc.status \notin {EXPIRED, ERROR}

\* Account.is_available: the value returned
is_available(a, acc, t) ==
    IF is_expired(a, t) THEN FALSE
    ELSE IF is_in_cooldown(acc, t) THEN FALSE
    ELSE IF after_cooldown_check(acc, t).status \in {EXPIRED, ERROR} THEN FALSE
    ELSE TRUE

\* Account.is_available: the account after the call
after_available_check(a, acc, t) ==
    IF is_expired(a, t) THEN [acc EXCEPT !.status = EXPIRED]
    ELSE after_cooldown_check(acc, t)

\* set_cooldown that leaves the error counter alone
set_cooldown_uncounted(acc, seconds, status, t) ==
    [acc EXCEPT !.cooldown_until = t + seconds, !.status = status]

\* set_cooldown with a deadline that is not counted from the present
set_cooldown_from_zero(acc, seconds, status, t) ==
    [acc EXCEPT !.cooldown_until = seconds, !.status = status,
                !.error_count = acc.error_count + 1]

\* set_cooldown never shortening a deadline that is already set
set_cooldown_extending(acc, seconds, status, t) ==
    [acc EXCEPT !.cooldown_until = IF acc.cooldown_until > t + seconds
                                   THEN acc.cooldown_until ELSE t + seconds,
                !.status = status,
                !.error_count = acc.error_count + 1]

\* Account.set_cooldown
set_cooldown(acc, seconds, status, t) ==
    [acc EXCEPT !.cooldown_until = t + seconds,
                !.status = status,
                !.error_count = acc.error_count + 1]

\* Account.mark_used
mark_used(acc, t) ==
    [acc EXCEPT !.last_used_at = t, !.request_count = acc.request_count + 1]

----------------------------------------------------------------------------
(* AccountPool *)

Range(seq) == {seq[i] : i \in 1..Len(seq)}

RECURSIVE SumField(_, _)
SumField(f, S) ==
    IF S = {} THEN 0
    ELSE LET x == CHOOSE y \in S : TRUE IN f[x] + SumField(f, S \ {x})

TotalErrors == SumField([a \in Ids |-> acct[a].error_count], Ids)
TotalRequests == SumField([a \in Ids |-> acct[a].request_count], Ids)

NoCheck == [a \in Ids |-> "none"]

\* No handle_error call is the last pool operation
NotReported == [status |-> "none", cooldown_until |-> 0, request_count |-> 0,
                error_count |-> 0, last_used_at |-> 0]

\* What the last pool operation returned: the operation, its outcome, the
\* account returned or reported, the result of every is_available() call it
\* made and the number returned or the status code reported. The other
\* operations leave NoResult.
Op(op, res, a, avail, n) ==
    [op |-> op, res |-> res, acct |-> a, avail |-> avail, n |-> n]

NoResult == Op("none", "ok", 0, NoCheck, 0)

\* a cursor that is not advanced
NextIndexStuck(idx, n) == idx % n

\* get_available_account: the cursor after one candidate was taken
NextIndex(idx, n) == (idx + 1) % n

\* get_available_account: the else branch of the availability test, which
\* calls is_expired() and then is_in_cooldown() for its log lines
skip_log(a, acc, t) ==
    IF is_expired(a, t) THEN acc ELSE after_cooldown_check(acc, t)

\* get_available_account: the while loop, from cursor idx with `attempts`
\* candidates already examined
RECURSIVE Scan(_, _, _, _, _, _)
Scan(seq, idx, attempts, A, avail, t) ==
    IF attempts >= Len(seq)
    THEN [res |-> "no_available", acct |-> 0, idx |-> idx, A |-> A, avail |-> avail]
    ELSE LET a == seq[idx + 1]
             nidx == NextIndex(idx, Len(seq))
             ok == is_available(a, A[a], t)
             checked == after_available_check(a, A[a], t)
         IN  IF ok
             THEN [res |-> "ok", acct |-> a, idx |-> nidx,
                   A |-> [A EXCEPT ![a] = mark_used(checked, t)],
                   avail |-> [avail EXCEPT ![a] = "yes"]]
             ELSE Scan(seq, nidx, attempts + 1,
                       [A EXCEPT ![a] = skip_log(a, checked, t)],
                       [avail EXCEPT ![a] = "no"], t)

\* get_available_account rewinding the cursor to the head of the pool when
\* the scan finds nothing
get_available_account_rewinding(seq, idx, A, t) ==
    IF Len(seq) = 0
    THEN [res |-> "pool_empty", acct |-> 0, idx |-> idx, A |-> A, avail |-> NoCheck]
    ELSE IF idx >= Len(seq)
    THEN [res |-> "index_error", acct |-> 0, idx |-> idx, A |-> A, avail |-> NoCheck]
    ELSE LET r == Scan(seq, idx, 0, A, NoCheck, t)
         IN  IF r.res = "no_available" THEN [r EXCEPT !.idx = 0] ELSE r

\* get_available_account, whole: an empty pool raises, a cursor past the end
\* of the sequence makes accounts[_current_index] raise IndexError before
\* anything is changed, otherwise the scan runs.
get_available_account(seq, idx, A, t) ==
    IF Len(seq) = 0
    THEN [res |-> "pool_empty", acct |-> 0, idx |-> idx, A |-> A, avail |-> NoCheck]
    ELSE IF idx >= Len(seq)
    THEN [res |-> "index_error", acct |-> 0, idx |-> idx, A |-> A, avail |-> NoCheck]
    ELSE Scan(seq, idx, 0, A, NoCheck, t)

\* warn_expiring_accounts: the accounts returned, in the order of the pool
\* (the calls it makes read time.time() and the timestamps of the accounts
\* and assign nothing)
warn_expiring_accounts(seq, t) ==
    SelectSeq(seq, LAMBDA a : should_warn_expiry(a, t))

\* What warn_expiring_accounts returned
WarnResult(expiring) ==
    [op |-> "warn", res |-> "ok", acct |-> 0, avail |-> NoCheck,
     n |-> Len(expiring), expiring |-> expiring]

\* Whether the body of a pool operation runs inside `async with self._lock`:
\* only get_available_account takes the lock; handle_error, the sweep, the
\* warning and the status views are plain methods that never touch it
under_lock(op) == op = "acquire"

\* handle_error disabling the account one error late
handle_error_late(acc, status_code, t) ==
    IF status_code = 401 THEN set_cooldown(acc, Cooldown401, COOLDOWN_401, t)
    ELSE IF status_code = 403 THEN set_cooldown(acc, Cooldown403, COOLDOWN_403, t)
    ELSE IF status_code = 429 THEN set_cooldown(acc, Cooldown429, COOLDOWN_429, t)
    ELSE LET counted == [acc EXCEPT !.error_count = acc.error_count + 1]
         IN  IF counted.error_count > ErrorThreshold
             THEN [counted EXCEPT !.status = ERROR]
             ELSE counted

\* handle_error: the account after the report
handle_error(acc, status_code, t) ==
    IF status_code = 401 THEN set_cooldown(acc, Cooldown401, COOLDOWN_401, t)
    ELSE IF status_code = 403 THEN set_cooldown(acc, Cooldown403, COOLDOWN_403, t)
    ELSE IF status_code = 429 THEN set_cooldown(acc, Cooldown429, COOLDOWN_429, t)
    ELSE LET counted == [acc EXCEPT !.error_count = acc.error_count + 1]
         IN  IF counted.error_count >= ErrorThreshold
             THEN [counted EXCEPT !.status = ERROR]
             ELSE counted

\* a sweep that keeps the expired accounts and drops the others
active_accounts_inverted(seq, t) == SelectSeq(seq, LAMBDA a : is_expired(a, t))

\* cleanup_expired_accounts: the accounts kept
active_accounts(seq, t) == SelectSeq(seq, LAMBDA a : ~is_expired(a, t))

\* cleanup_expired_accounts: the cursor after the sweep
reset_index(idx, n) == IF idx >= n THEN 0 ELSE idx

\* delete_account (admin route): list.remove of the account with the email
remove_account(seq, a) == SelectSeq(seq, LAMBDA b : b # a)

\* delete_account (admin route): the cursor after the removal (the route
\* does not touch it)
index_after_delete(idx, n) == idx

----------------------------------------------------------------------------
(* TokenManager *)

\* The tasks that call get_token() on the one TokenManager of an account
Callers == {1, 2, 3}

\* The signing secrets (xsrfToken) the backend may answer with; "" is None
Secrets == {"k1", "k2"}

\* What the backend answers to a secret fetch: 200 with a secret and a key
\* id, a status other than 200, 200 without the xsrfToken field (with or
\* without a keyId), 200 with a secret that base64.b64decode rejects, or no
\* answer at all (httpx raises a transport error)
Replies ==
    [kind : {"ok"}, secret : Secrets, kid : {"kid"}]
        \cup [kind : {"non200", "network"}, secret : {""}, kid : {""}]
        \cup [kind : {"no_secret"}, secret : {""}, kid : {"", "kid"}]
        \cup [kind : {"bad_secret"}, secret : {"bad"}, kid : {"kid"}]

\* The clock advances of the token runs, in seconds: a token of 300 s is
\* met with 100, 30 and 20 s of validity left, and after its expiry
TokenSteps == {200, 270, 280}

\* No JWT (jwt_token is None)
NoJwt == [key |-> "", iat |-> 0, exp |-> 0]

\* TokenManager._generate_jwt: the token is determined by the signing key
\* and the payload's iat and exp (iss, aud and sub are fixed)
generate_jwt(secret, t) ==
    [key |-> secret, iat |-> t, exp |-> t + token_validity_seconds]

\* _should_refresh with the margin applied on the wrong side of the bound
should_refresh_late(tok, expires, t) ==
    IF tok = NoJwt THEN TRUE
    ELSE t > expires - refresh_before_seconds

\* _should_refresh without the margin before the expiry
should_refresh_at_expiry(tok, expires, t) ==
    IF tok = NoJwt THEN TRUE
    ELSE t >= expires

\* TokenManager._should_refresh
should_refresh(tok, expires, t) ==
    IF tok = NoJwt THEN TRUE
    ELSE t >= expires - refresh_before_seconds

\* a lock that lets every caller in
holds_lock_unguarded(lock, p) == \E i \in 1..Len(lock) : lock[i] = p

\* asyncio.Lock: the caller at the head of the queue holds the lock, the
\* others wait in the order of their calls
holds_lock(lock, p) == Len(lock) > 0 /\ lock[1] = p

\* a lock that is never given back
release_never(lock, p) == lock

\* the lock leaving: the caller is taken out of the queue
release(lock, p) == SelectSeq(lock, LAMBDA q : q # p)

\* a failed refresh that keeps the token it found
refresh_token_keeping(st, r, t) ==
    IF r.kind = "ok"
    THEN [jwt |-> generate_jwt(r.secret, t), expires |-> t + token_validity_seconds,
          xsrf |-> r.secret, kid |-> r.kid, ok |-> TRUE]
    ELSE [st EXCEPT !.ok = FALSE]

\* a failed refresh that also empties the cached secret and key id
refresh_token_clearing(st, r, t) ==
    IF r.kind = "ok"
    THEN [jwt |-> generate_jwt(r.secret, t), expires |-> t + token_validity_seconds,
          xsrf |-> r.secret, kid |-> r.kid, ok |-> TRUE]
    ELSE [jwt |-> NoJwt, expires |-> 0, xsrf |-> "", kid |-> "", ok |-> FALSE]

\* TokenManager._refresh_token: the token state after the answer r, and
\* whether the refresh succeeded. A status other than 200 and a transport
\* error raise before xsrf_token and key_id are assigned; an answer without
\* xsrfToken raises after both were assigned from it, and so does
\* _generate_jwt on a secret it cannot decode; the except clause resets
\* jwt_token and token_expires_at.
refresh_token(st, r, t) ==
    IF r.kind = "ok"
    THEN [jwt |-> generate_jwt(r.secret, t), expires |-> t + token_validity_seconds,
          xsrf |-> r.secret, kid |-> r.kid, ok |-> TRUE]
    ELSE IF r.kind \in {"no_secret", "bad_secret"}
    THEN [jwt |-> NoJwt, expires |-> 0, xsrf |-> r.secret, kid |-> r.kid, ok |-> FALSE]
    ELSE [jwt |-> NoJwt, expires |-> 0, xsrf |-> st.xsrf, kid |-> st.kid, ok |-> FALSE]

\* What a caller found when it called get_token(): the instant, whether
\* the cached token was due for refresh, the number of refreshes done so
\* far, and (later) whether a refresh failed while it was waiting
NoCall == [start |-> 0, stale |-> FALSE, gen |-> 0, failed |-> FALSE]

\* What get_token() returned: the caller, a token or an error, the
\* validity the cache had left at that instant, the refreshes that succeeded
\* during the call, whether the call took less than the refresh period, and
\* its call record
Return(p, kind, tok, expires, c, t, n) ==
    [who |-> p, kind |-> kind, tok |-> tok,
     remaining |-> IF kind = "token" THEN expires - t ELSE 0,
     seen |-> n - c.gen,
     quick |-> t - c.start < token_validity_seconds - refresh_before_seconds,
     stale |-> c.stale, gen |-> c.gen, failed |-> c.failed]

NoReturn == [who |-> 0, kind |-> "none", tok |-> NoJwt, remaining |-> 0, seen |-> 0,
             quick |-> FALSE, stale |-> FALSE, gen |-> 0, failed |-> FALSE]

\* A return to a caller that found the cached token absent or due for
\* refresh, saw no refresh fail and waited less than the refresh period
Qualified(r) == r.kind = "token" /\ r.stale /\ ~r.failed /\ r.quick

\* The token handed to such callers for one refresh generation, and to how
\* many of them
NothingGiven == [gen |-> 0, tok |-> NoJwt, n |-> 0]

give(g, r) ==
    IF ~Qualified(r) THEN g
    ELSE IF g.n > 0 /\ g.gen = r.gen THEN [g EXCEPT !.n = g.n + 1]
    ELSE [gen |-> r.gen, tok |-> r.tok, n |-> 1]

\* TokenManager.__init__
TokenInit ==
    /\ jwt_token = NoJwt
    /\ token_expires_at = 0
    /\ xsrf_token = ""
    /\ key_id = ""
    /\ refresh_lock = << >>
    /\ pc = [p \in Callers |-> "idle"]
    /\ call = [p \in Callers |-> NoCall]
    /\ lastReturn = NoReturn
    /\ given = NothingGiven
    /\ refreshes = 0
    /\ calls = 0
    /\ lastRefresh = "none"

\* get_token() is called: the task queues on the lock
CallGetToken(p) ==
    /\ pc[p] = "idle"
    /\ calls < MaxCalls
    /\ calls' = calls + 1
    /\ pc' = [pc EXCEPT ![p] = "waiting"]
    /\ refresh_lock' = Append(refresh_lock, p)
    /\ call' = [call EXCEPT ![p] =
                   [start |-> now,
                    stale |-> should_refresh(jwt_token, token_expires_at, now),
                    gen |-> refreshes, failed |-> FALSE]]
    /\ lastReturn' = NoReturn
    /\ UNCHANGED <<jwt_token, token_expires_at, xsrf_token, key_id, given,
                   refreshes, lastRefresh, now, poolVars, clientVars, otherVars>>

\* get_token() inside the lock, no refresh due: the cached token is returned
ReturnCached(p) ==
    /\ pc[p] = "waiting"
    /\ holds_lock(refresh_lock, p)
    /\ ~should_refresh(jwt_token, token_expires_at, now)
    /\ lastReturn' = Return(p, IF jwt_token # NoJwt THEN "token" ELSE "error",
                            jwt_token, token_expires_at, call[p], now, refreshes)
    /\ given' = give(given, lastReturn')
    /\ pc' = [pc EXCEPT ![p] = "idle"]
    /\ refresh_lock' = release(refresh_lock, p)
    /\ call' = [call EXCEPT ![p] = NoCall]
    /\ UNCHANGED <<jwt_token, token_expires_at, xsrf_token, key_id,
                   refreshes, calls, lastRefresh, now, poolVars, clientVars, otherVars>>

\* get_token() inside the lock, refresh due: _refresh_token sends the secret
\* fetch and the task is suspended until the answer
StartRefresh(p) ==
    /\ pc[p] = "waiting"
    /\ holds_lock(refresh_lock, p)
    /\ should_refresh(jwt_token, token_expires_at, now)
    /\ pc' = [pc EXCEPT ![p] = "fetching"]
    /\ lastReturn' = NoReturn
    /\ UNCHANGED <<jwt_token, token_expires_at, xsrf_token, key_id, refresh_lock,
                   call, given, refreshes, calls, lastRefresh, now, poolVars, clientVars, otherVars>>

\* the answer arrives: _refresh_token finishes, get_token returns the new
\* token or raises, and the lock is released
FinishRefresh(p, r) ==
    /\ pc[p] = "fetching"
    /\ LET st == refresh_token([jwt |-> jwt_token, expires |-> token_expires_at,
                                xsrf |-> xsrf_token, kid |-> key_id, ok |-> TRUE],
                               r, now)
       IN  /\ jwt_token' = st.jwt
           /\ token_expires_at' = st.expires
           /\ xsrf_token' = st.xsrf
           /\ key_id' = st.kid
           /\ refreshes' = IF st.ok THEN refreshes + 1 ELSE refreshes
           /\ lastRefresh' = r.kind
           /\ lastReturn' = Return(p, IF st.ok /\ st.jwt # NoJwt THEN "token" ELSE "error",
                                   IF st.ok THEN st.jwt ELSE NoJwt,
                                   st.expires, call[p], now, refreshes')
           /\ given' = give(given, lastReturn')
           /\ call' = [q \in Callers |->
                          IF q = p THEN NoCall
                          ELSE IF pc[q] # "idle" /\ ~st.ok
                               THEN [call[q] EXCEPT !.failed = TRUE]
                               ELSE call[q]]
    /\ pc' = [pc EXCEPT ![p] = "idle"]
    /\ refresh_lock' = release(refresh_lock, p)
    /\ UNCHANGED <<calls, now, poolVars, clientVars, otherVars>>

\* time passes
TokenTick(d) ==
    /\ now < Now0 + MaxTokenSeconds
    /\ now' = now + d
    /\ lastReturn' = NoReturn
    /\ UNCHANGED <<jwt_token, token_expires_at, xsrf_token, key_id, refresh_lock,
                   pc, call, given, refreshes, calls, lastRefresh, poolVars, clientVars, otherVars>>

NextToken ==
    \/ \E p \in Callers : CallGetToken(p)
    \/ \E p \in Callers : ReturnCached(p)
    \/ \E p \in Callers : StartRefresh(p)
    \/ \E p \in Callers, r \in Replies : FinishRefresh(p, r)
    \/ \E d \in TokenSteps : TokenTick(d)

----------------------------------------------------------------------------
(* GeminiClient *)

\* The status codes the backend answers with
HttpCodes == {200, 400, 401, 403, 429, 499, 500}

\* What one send_message() call meets: get_token() raising (a plain
\* Exception), the session creation answered with a status other than 200,
\* not answered at all (httpx.RequestError) or answered without a session
\* name (a plain Exception), or the chat request answered with a status or
\* not answered at all. The code of an outcome without a status is 0.
Outcomes ==
    [stage : {"token"}, kind : {"exception"}, code : {0}]
        \cup [stage : {"session"}, kind : {"status"}, code : HttpCodes \ {200}]
        \cup [stage : {"session"}, kind : {"transport", "exception"}, code : {0}]
        \cup [stage : {"chat"}, kind : {"status"}, code : HttpCodes]
        \cup [stage : {"chat"}, kind : {"transport"}, code : {0}]

\* The max_retries arguments of the calls; -1 is None (the default)
RetryArgs == {-1, 0, 1, 2}

\* send_message_with_retry: max_retries after the default was applied
effective_retries(mr) == IF mr = -1 THEN MAX_RETRIES ELSE mr

\* a loop that makes one attempt fewer
range_len_short(mr) == mr

\* send_message_with_retry: the iterations of `for attempt in
\* range(max_retries + 1)`
range_len(mr) == mr + 1

\* The exception object raised by attempt number `attempt`
Err(attempt, kind, code) == [attempt |-> attempt, kind |-> kind, code |-> code]

NoError == [attempt |-> -1, kind |-> "none", code |-> 0]

\* a send that asks for a new session whether or not one is cached
send_message_uncached(sess, n, o, stream) ==
    IF o.stage = "token"
    THEN [session |-> sess, sessions |-> n, kind |-> "exception", code |-> 0]
    ELSE [session |-> n + 1, sessions |-> n + 1,
          kind |-> IF stream THEN "generator"
                   ELSE IF o.kind = "transport" THEN "request_error"
                   ELSE IF o.code = 200 THEN "ok" ELSE "http_error",
          code |-> IF stream THEN 0 ELSE o.code]

\* GeminiClient.send_message (with _create_session): the cached session
\* and the number of sessions after the call, and what the call returned or
\* raised. A session is created when none is cached and stays cached when
\* the chat request fails; with stream=True the chat request is not sent by
\* the call, which returns the generator.
send_message(sess, n, o, stream) ==
    IF o.stage = "token"
    THEN [session |-> sess, sessions |-> n, kind |-> "exception", code |-> 0]
    ELSE IF sess = 0 /\ o.stage = "session"
    THEN [session |-> sess, sessions |-> n,
          kind |-> IF o.kind = "status" THEN "http_error"
                   ELSE IF o.kind = "transport" THEN "request_error"
                   ELSE "exception",
          code |-> o.code]
    ELSE LET cached == IF sess = 0 THEN n + 1 ELSE sess
             made == IF sess = 0 THEN n + 1 ELSE n
         IN  IF stream
             THEN [session |-> cached, sessions |-> made, kind |-> "generator", code |-> 0]
             ELSE IF o.kind = "transport"
             THEN [session |-> cached, sessions |-> made, kind |-> "request_error", code |-> 0]
             ELSE IF o.code = 200
             THEN [session |-> cached, sessions |-> made, kind |-> "ok", code |-> 200]
             ELSE [session |-> cached, sessions |-> made, kind |-> "http_error",
                   code |-> o.code]

\* GeminiClient.upload_file (with _create_session): the cached session and
\* the number of sessions after the call, and what the call returned or
\* raised. The stage "chat" of the outcome is the upload request, which is
\* posted with the cached session name.
upload_file(sess, n, o) ==
    IF o.stage = "token"
    THEN [session |-> sess, sessions |-> n, kind |-> "exception", code |-> 0]
    ELSE IF sess = 0 /\ o.stage = "session"
    THEN [session |-> sess, sessions |-> n,
          kind |-> IF o.kind = "status" THEN "http_error"
                   ELSE IF o.kind = "transport" THEN "request_error"
                   ELSE "exception",
          code |-> o.code]
    ELSE LET cached == IF sess = 0 THEN n + 1 ELSE sess
             made == IF sess = 0 THEN n + 1 ELSE n
         IN  IF o.kind = "transport"
             THEN [session |-> cached, sessions |-> made, kind |-> "request_error", code |-> 0]
             ELSE IF o.code = 200
             THEN [session |-> cached, sessions |-> made, kind |-> "ok", code |-> 200]
             ELSE [session |-> cached, sessions |-> made, kind |-> "http_error",
                   code |-> o.code]

\* A payload posted to the chat or the upload API: the request and the
\* session name in its "session" or "name" field
Payload(req, sess) == [req |-> req, session |-> sess]

\* an HTTPStatusError handler that retries every status
on_http_error_retrying(sess, code) ==
    [do |-> "retry", session |-> IF code = 401 THEN 0 ELSE sess]

\* send_message_with_retry, except httpx.HTTPStatusError: a 4xx status other
\* than 429 is re-raised at once; after that test a 401 clears the cached
\* session; then the error is kept and the loop goes on
on_http_error(sess, code) ==
    IF 400 <= code /\ code < 500 /\ code # 429
    THEN [do |-> "raise", session |-> sess]
    ELSE [do |-> "retry", session |-> IF code = 401 THEN 0 ELSE sess]

\* a RequestError handler that gives up at once
on_request_error_raising(sess) == [do |-> "raise", session |-> sess]

\* send_message_with_retry, except httpx.RequestError: the error is kept and
\* the loop goes on
on_request_error(sess) == [do |-> "retry", session |-> sess]

\* a try statement that keeps any exception and goes on
handle_attempt_catching_all(r) ==
    IF r.kind \in {"ok", "generator"} THEN [do |-> "return", session |-> r.session]
    ELSE IF r.kind = "http_error" THEN on_http_error(r.session, r.code)
    ELSE [do |-> "retry", session |-> r.session]

\* send_message_with_retry: what the try statement does with the outcome r
\* of send_message (any other exception is not caught)
handle_attempt(r) ==
    IF r.kind \in {"ok", "generator"} THEN [do |-> "return", session |-> r.session]
    ELSE IF r.kind = "http_error" THEN on_http_error(r.session, r.code)
    ELSE IF r.kind = "request_error" THEN on_request_error(r.session)
    ELSE [do |-> "raise", session |-> r.session]

NoSendCall == [max_retries |-> 0, stream |-> FALSE, attempt |-> 0, last_error |-> NoError]

\* What send_message_with_retry returned or raised: the attempt whose
\* response or exception object it is, the exception, and the session the
\* response came from
SendResult(kind, attempt, err, sess) ==
    [kind |-> kind, attempt |-> attempt, err |-> err, session |-> sess]

NoSendResult == SendResult("none", -1, NoError, 0)

\* GeminiClient.__init__
ClientInit ==
    /\ session_name = 0
    /\ sessions = 0
    /\ send_pc = "idle"
    /\ send_call = NoSendCall
    /\ history = << >>
    /\ send_result = NoSendResult
    /\ sends = 0
    /\ posted = {}
    /\ seen401 = FALSE

\* send_message_with_retry is called
StartSend(mr, stream) ==
    /\ send_pc = "idle"
    /\ sends < MaxSends
    /\ sends' = sends + 1
    /\ send_pc' = "running"
    /\ send_call' = [max_retries |-> effective_retries(mr), stream |-> stream,
                     attempt |-> 0, last_error |-> NoError]
    /\ history' = << >>
    /\ send_result' = NoSendResult
    /\ UNCHANGED <<session_name, sessions, posted, seen401, now, poolVars, tokenVars, otherVars>>

\* one iteration of the retry loop: send_message is awaited and meets
\* outcome o; the call returns, raises, or keeps the error and goes on, and
\* when the loop is used up it raises the last error
Attempt(o) ==
    /\ send_pc = "running"
    /\ o.stage = "session" => session_name = 0
    /\ (send_call.stream /\ o.stage = "chat") => (o.kind = "status" /\ o.code = 200)
    /\ LET r == send_message(session_name, sessions, o, send_call.stream)
           h == handle_attempt(r)
           e == Err(send_call.attempt, r.kind, r.code)
           last == send_call.attempt + 1 >= range_len(send_call.max_retries)
       IN  /\ session_name' = h.session
           /\ sessions' = r.sessions
           /\ history' = Append(history, [had_session |-> session_name # 0,
                                         stage |-> o.stage, kind |-> o.kind,
                                         code |-> o.code])
           /\ IF h.do = "return"
              THEN /\ send_result' = SendResult(r.kind, send_call.attempt, NoError, r.session)
                   /\ send_pc' = "idle"
                   /\ send_call' = send_call
              ELSE IF h.do = "raise"
              THEN /\ send_result' = SendResult("raised", send_call.attempt, e, 0)
                   /\ send_pc' = "idle"
                   /\ send_call' = send_call
              ELSE /\ send_call' = [send_call EXCEPT !.attempt = send_call.attempt + 1,
                                                     !.last_error = e]
                   /\ send_pc' = IF last THEN "idle" ELSE "running"
                   /\ send_result' = IF last THEN SendResult("raised", e.attempt, e, 0)
                                     ELSE send_result
           /\ posted' = IF o.stage = "chat" /\ ~send_call.stream
                         THEN posted \cup {Payload("message", r.session)}
                         ELSE posted
           /\ seen401' = (seen401 \/ r.code = 401)
    /\ UNCHANGED <<sends, now, poolVars, tokenVars, otherVars>>

\* the caller iterates the generator a stream=True call returned: only now
\* is the chat request sent, outside the retry loop, and a status other
\* than 200 or a transport error is raised to the caller
Drain(o) ==
    /\ send_pc = "idle"
    /\ send_result.kind = "generator"
    /\ o.stage = "chat"
    /\ send_result' =
           IF o.kind = "status" /\ o.code = 200
           THEN [send_result EXCEPT !.kind = "streamed"]
           ELSE [send_result EXCEPT !.kind = "stream_error",
                    !.err = Err(send_result.attempt,
                                IF o.kind = "status" THEN "http_error" ELSE "request_error",
                                o.code)]
    /\ posted' = posted \cup {Payload("message", send_result.session)}
    /\ seen401' = (seen401 \/ o.code = 401)
    /\ UNCHANGED <<session_name, sessions, send_pc, send_call, history, sends,
                   now, poolVars, tokenVars, otherVars>>

\* upload_file is called and meets outcome o (it is not retried)
Upload(o) ==
    /\ send_pc = "idle"
    /\ sends < MaxSends
    /\ o.stage = "session" => session_name = 0
    /\ LET r == upload_file(session_name, sessions, o)
       IN  /\ session_name' = r.session
           /\ sessions' = r.sessions
           /\ posted' = IF o.stage = "chat"
                         THEN posted \cup {Payload("upload", r.session)}
                         ELSE posted
           /\ seen401' = (seen401 \/ r.code = 401)
    /\ sends' = sends + 1
    /\ UNCHANGED <<send_pc, send_call, history, send_result, now, poolVars, tokenVars, otherVars>>

NextClient ==
    \/ \E mr \in RetryArgs, stream \in BOOLEAN : StartSend(mr, stream)
    \/ \E o \in Outcomes : Attempt(o)
    \/ \E o \in Outcomes : Drain(o)
    \/ \E o \in Outcomes : Upload(o)

----------------------------------------------------------------------------
(* The endpoints *)

\* The endpoints that acquire an account and call the client
Endpoints == {"chat_send", "chat_upload", "openai_chat", "openai_images",
              "claude_messages", "gemini_generate"}

\* The requests: an endpoint and the stream flag of the request body, which
\* only the OpenAI and the Claude chat endpoints have
Requests ==
    [ep : Endpoints, stream : {FALSE}]
        \cup [ep : {"openai_chat", "claude_messages"}, stream : {TRUE}]

\* What the client call of a handler comes to: a result, an
\* httpx.HTTPStatusError with the status of the backend, an
\* httpx.RequestError or a plain Exception
Upstream ==
    [kind : {"ok"}, code : {200}]
        \cup [kind : {"http_error"}, code : HttpCodes \ {200}]
        \cup [kind : {"request_error", "exception"}, code : {0}]

\* Whether the handler calls get_available_account() inside a try statement
\* that turns its exception into HTTPException(503)
guards_acquire(ep) == ep # "openai_images"

\* Whether the handler returns its response before the client is called:
\* create_chat_completion with stream=True returns a StreamingResponse over
\* the generator stream_openai_format(), and the client call is in the body
\* of that generator, which runs after the handler has returned. The Claude
\* endpoint sends without streaming and then streams the finished text.
sends_after_return(ep, stream) == ep = "openai_chat" /\ stream

\* A handler, whole: the HTTP status it answers with and the status codes
\* it passes to account_pool.handle_error, given the outcome res of its
\* acquire and what the client call comes to. An exception of the acquire
\* that is not caught reaches general_exception_handler (500); an exception
\* of the client call with a `response` attribute is reported and answered
\* with its status, any other with 500; an exception in the body of the
\* generator is raised to the server after the status line 200 was sent.
handle_request(ep, stream, res, up) ==
    IF res # "ok"
    THEN [http |-> IF guards_acquire(ep) THEN 503 ELSE 500, reports |-> << >>]
    ELSE IF sends_after_return(ep, stream)
    THEN [http |-> 200, reports |-> << >>]
    ELSE IF up.kind = "ok"
    THEN [http |-> 200, reports |-> << >>]
    ELSE IF up.kind = "http_error"
    THEN [http |-> up.code, reports |-> <<up.code>>]
    ELSE [http |-> 500, reports |-> << >>]

\* No request handled yet
NoRequest ==
    [n |-> 0, ep |-> "none", stream |-> FALSE, acquire |-> "none", acct |-> 0,
     up |-> [kind |-> "none", code |-> 0], http |-> 0, reports |-> << >>]

RouteInit == lastReq = NoRequest

----------------------------------------------------------------------------
(* ConfigLoader *)

\* _create_account: required_fields
RequiredFields == {"email", "team_id", "secure_c_ses", "host_c_oses", "csesidx",
                   "user_agent", "created_at"}

\* The account entries of the documents: the keys the entry has, and
\* whether datetime.fromisoformat accepts its timestamps
ConfigEntries ==
    {[fields |-> RequiredFields, ts_ok |-> TRUE],
     [fields |-> RequiredFields \cup {"expires_at"}, ts_ok |-> TRUE],
     [fields |-> RequiredFields \ {"team_id"}, ts_ok |-> TRUE],
     [fields |-> RequiredFields \ {"email", "created_at"}, ts_ok |-> TRUE],
     [fields |-> RequiredFields, ts_ok |-> FALSE]}

\* The configuration files: absent, not JSON, or a document with a list of
\* account entries
ConfigDocs ==
    [file : {"absent", "invalid"}, accounts : {<< >>}]
        \cup [file : {"json"},
              accounts : UNION {[1..k -> ConfigEntries] : k \in 0..MaxEntries}]

\* _create_account (with Account.__init__): the missing required fields,
\* and whether an Account is returned
create_account(data) ==
    LET missing_fields == RequiredFields \ data.fields
    IN  [ok |-> missing_fields = {} /\ data.ts_ok, missing |-> missing_fields]

\* What load_accounts returns or raises: the entries (by position) the
\* accounts returned were made from, or the exception, the position of the
\* entry it names and the missing fields it lists
LoadResult(kind, loaded, idx, missing) ==
    [kind |-> kind, accounts |-> loaded, index |-> idx, missing |-> missing]

NoLoad == LoadResult("none", << >>, 0, {})

\* load_accounts, the for loop from entry i on with the accounts made so far
RECURSIVE load_loop(_, _, _)
load_loop(entries, i, loaded) ==
    IF i > Len(entries) THEN LoadResult("accounts", loaded, 0, {})
    ELSE LET c == create_account(entries[i])
         IN  IF c.ok THEN load_loop(entries, i + 1, Append(loaded, i))
             ELSE LoadResult("ValueError", << >>, i, c.missing)

\* a load that leaves out the entries it cannot load
load_accounts_skipping(doc) ==
    IF doc.file = "absent" THEN LoadResult("FileNotFoundError", << >>, 0, {})
    ELSE IF doc.file = "invalid" THEN LoadResult("ValueError", << >>, 0, {})
    ELSE IF doc.accounts = << >> THEN LoadResult("ValueError", << >>, 0, {})
    ELSE LoadResult("accounts",
                    SelectSeq([i \in DOMAIN doc.accounts |-> i],
                              LAMBDA i : create_account(doc.accounts[i]).ok),
                    0, {})

\* ConfigLoader.load_accounts
load_accounts(doc) ==
    IF doc.file = "absent" THEN LoadResult("FileNotFoundError", << >>, 0, {})
    ELSE IF doc.file = "invalid" THEN LoadResult("ValueError", << >>, 0, {})
    ELSE IF doc.accounts = << >> THEN LoadResult("ValueError", << >>, 0, {})
    ELSE load_loop(doc.accounts, 1, << >>)

\* ConfigLoader.__init__: no file has been written yet
ConfigInit ==
    /\ config_doc = [file |-> "absent", accounts |-> << >>]
    /\ load_result = NoLoad

\* the configuration file is written
WriteConfig(doc) ==
    /\ doc # config_doc
    /\ config_doc' = doc
    /\ load_result' = NoLoad
    /\ UNCHANGED exceptConfig

\* ConfigLoader.load_accounts is called
LoadAccounts ==
    /\ load_result' = load_accounts(config_doc)
    /\ UNCHANGED <<config_doc, exceptConfig>>

NextConfig ==
    \/ \E doc \in ConfigDocs : WriteConfig(doc)
    \/ LoadAccounts

----------------------------------------------------------------------------
(* GeminiClient: extracting the text of a response *)

\* One element of `replies`: the text of groundedContent.content ("" when
\* the key is absent) and its thought flag (FALSE when the key is absent)
Reply(text, thought) == [text |-> text, thought |-> thought]

\* The decoded objects of the responses, each given by the list at
\* streamAssistResponse.answer.replies (empty when a key on the way is
\* absent)
ChunkKinds ==
    {<< >>,
     <<Reply("a", FALSE)>>,
     <<Reply("b", FALSE)>>,
     <<Reply("t", TRUE)>>,
     <<Reply("", FALSE)>>,
     <<Reply("", TRUE)>>,
     <<Reply("t", TRUE), Reply("a", FALSE)>>,
     <<Reply("b", FALSE), Reply("", FALSE), Reply("a", FALSE)>>}

\* The responses: the objects the decoder yields, in order
Responses == UNION {[1..k -> ChunkKinds] : k \in 0..MaxChunks}

\* _stream_response: the texts yielded for the replies of one object, from
\* reply i on
RECURSIVE stream_replies(_, _)
stream_replies(replies, i) ==
    IF i > Len(replies) THEN << >>
    ELSE IF replies[i].text # "" /\ ~replies[i].thought
    THEN <<replies[i].text>> \o stream_replies(replies, i + 1)
    ELSE stream_replies(replies, i + 1)

\* _stream_response: the texts yielded, in order, from object k on
RECURSIVE stream_response(_, _)
stream_response(chunks, k) ==
    IF k > Len(chunks) THEN << >>
    ELSE stream_replies(chunks[k], 1) \o stream_response(chunks, k + 1)

\* a collection that keeps the thought fragments
RECURSIVE get_complete_response_with_thoughts(_, _, _, _)
get_complete_response_with_thoughts(chunks, k, i, response_text) ==
    IF k > Len(chunks) THEN response_text
    ELSE IF i > Len(chunks[k])
    THEN get_complete_response_with_thoughts(chunks, k + 1, 1, response_text)
    ELSE get_complete_response_with_thoughts(chunks, k, i + 1,
                                             response_text \o chunks[k][i].text)

\* _get_complete_response: response_text after the loops, from reply i of
\* object k on, with the text collected so far
RECURSIVE get_complete_response(_, _, _, _)
get_complete_response(chunks, k, i, response_text) ==
    IF k > Len(chunks) THEN response_text
    ELSE IF i > Len(chunks[k])
    THEN get_complete_response(chunks, k + 1, 1, response_text)
    ELSE get_complete_response(chunks, k, i + 1,
             IF chunks[k][i].text # "" /\ ~chunks[k][i].thought
             THEN response_text \o chunks[k][i].text
             ELSE response_text)

NoStream == [done |-> FALSE, texts |-> << >>]

NoComplete == [done |-> FALSE, response |-> ""]

DecodeInit ==
    /\ resp_chunks = << >>
    /\ stream_out = NoStream
    /\ complete_out = NoComplete

\* the backend answers the message with a sequence of objects (a response
\* without objects is the one of the initial state)
Respond(chunks) ==
    /\ resp_chunks = << >>
    /\ chunks # << >>
    /\ ~stream_out.done
    /\ ~complete_out.done
    /\ resp_chunks' = chunks
    /\ stream_out' = NoStream
    /\ complete_out' = NoComplete
    /\ UNCHANGED exceptDecode

\* the response is consumed through _stream_response
StreamResponse ==
    /\ stream_out' = [done |-> TRUE, texts |-> stream_response(resp_chunks, 1)]
    /\ UNCHANGED <<resp_chunks, complete_out, exceptDecode>>

\* the response is collected by _get_complete_response
CompleteResponse ==
    /\ complete_out' = [done |-> TRUE,
                        response |-> get_complete_response(resp_chunks, 1, 1, "")]
    /\ UNCHANGED <<resp_chunks, stream_out, exceptDecode>>

NextDecode ==
    \/ \E chunks \in Responses : Respond(chunks)
    \/ StreamResponse
    \/ CompleteResponse

----------------------------------------------------------------------------
(* The incremental JSON-array decoder *)

\* The elements of the arrays, character by character:
\*   {}   {"a":"}"}   {"a":"[,{"}   {"a":[{},{}]}   {"a":"\""}   {"a":"\\"}
ElementTexts ==
    {<<"{", "}">>,
     <<"{", "\"", "a", "\"", ":", "\"", "}", "\"", "}">>,
     <<"{", "\"", "a", "\"", ":", "\"", "[", ",", "{", "\"", "}">>,
     <<"{", "\"", "a", "\"", ":", "[", "{", "}", ",", "{", "}", "]", "}">>,
     <<"{", "\"", "a", "\"", ":", "\"", "\\", "\"", "\"", "}">>,
     <<"{", "\"", "a", "\"", ":", "\"", "\\", "\\", "\"", "}">>}

\* The text of the elements from the i-th on, each after the first one of
\* the array preceded by a comma
RECURSIVE JoinFrom(_, _)
JoinFrom(elements, i) ==
    IF i > Len(elements) THEN << >>
    ELSE (IF i > 1 THEN <<",">> ELSE << >>) \o elements[i] \o JoinFrom(elements, i + 1)

\* A JSON array: its elements and its text
ArrayOf(elements) ==
    [elements |-> elements, text |-> <<"[">> \o JoinFrom(elements, 1) \o <<"]">>]

\* The response bodies
ArrayDocs ==
    {ArrayOf(es) : es \in UNION {[1..k -> ElementTexts] : k \in 0..MaxElements}}

\* The decoder before the first line
NewDecoder ==
    [buffer |-> << >>, depth |-> 0, in_string |-> FALSE, escape |-> FALSE,
     yielded |-> << >>]

\* a scan that counts the brackets inside string literals too
scan_char_counting_strings(d, c) ==
    IF d.depth = 0
    THEN IF c = "{"
         THEN [d EXCEPT !.buffer = <<c>>, !.depth = 1]
         ELSE d
    ELSE LET b == Append(d.buffer, c)
         IN  IF c \in {"{", "["}
             THEN [d EXCEPT !.buffer = b, !.depth = d.depth + 1]
             ELSE IF c \in {"}", "]"}
             THEN IF d.depth = 1
                  THEN [d EXCEPT !.buffer = << >>, !.depth = 0,
                                 !.yielded = Append(d.yielded, b)]
                  ELSE [d EXCEPT !.buffer = b, !.depth = d.depth - 1]
             ELSE [d EXCEPT !.buffer = b]

\* The decoder after scanning one newly appended character c. Outside an
\* element (depth zero) the array's own brackets, the commas and the
\* whitespace are dropped and an opening brace starts an element. Inside
\* an element the character joins the buffer; inside a string literal only
\* the escape flag and the closing quote are tracked and the depth is left
\* alone; outside one a quote opens a string, an opening bracket or brace
\* raises the depth and a closing one lowers it, and when the depth is back
\* at zero the buffered span is parsed and yielded and the buffer reset.
scan_char(d, c) ==
    IF d.depth = 0
    THEN IF c = "{"
         THEN [d EXCEPT !.buffer = <<c>>, !.depth = 1]
         ELSE d
    ELSE LET b == Append(d.buffer, c)
         IN  IF d.in_string
             THEN IF d.escape THEN [d EXCEPT !.buffer = b, !.escape = FALSE]
                  ELSE IF c = "\\" THEN [d EXCEPT !.buffer = b, !.escape = TRUE]
                  ELSE IF c = "\"" THEN [d EXCEPT !.buffer = b, !.in_string = FALSE]
                  ELSE [d EXCEPT !.buffer = b]
             ELSE IF c = "\"" THEN [d EXCEPT !.buffer = b, !.in_string = TRUE]
             ELSE IF c \in {"{", "["}
             THEN [d EXCEPT !.buffer = b, !.depth = d.depth + 1]
             ELSE IF c \in {"}", "]"}
             THEN IF d.depth = 1
                  THEN [d EXCEPT !.buffer = << >>, !.depth = 0,
                                 !.yielded = Append(d.yielded, b)]
                  ELSE [d EXCEPT !.buffer = b, !.depth = d.depth - 1]
             ELSE [d EXCEPT !.buffer = b]

\* The decoder after one line was appended and scanned from its character
\* i on
RECURSIVE feed_line(_, _, _)
feed_line(d, line, i) ==
    IF i > Len(line) THEN d
    ELSE feed_line(scan_char(d, line[i]), line, i + 1)

ParserInit ==
    /\ array_doc = ArrayOf(<< >>)
    /\ fed = 0
    /\ decoder = NewDecoder

\* the backend starts to answer with an array
StartArray(doc) ==
    /\ fed = 0
    /\ array_doc = ArrayOf(<< >>)
    /\ doc # array_doc
    /\ array_doc' = doc
    /\ UNCHANGED <<fed, decoder, exceptParser>>

\* the next line of the body arrives, k characters long, and the decoder
\* is resumed
FeedLine(k) ==
    /\ fed + k <= Len(array_doc.text)
    /\ decoder' = feed_line(decoder, SubSeq(array_doc.text, fed + 1, fed + k), 1)
    /\ fed' = fed + k
    /\ UNCHANGED <<array_doc, exceptParser>>

NextParser ==
    \/ \E doc \in ArrayDocs : StartArray(doc)
    \/ \E k \in 1..MaxLine : FeedLine(k)

----------------------------------------------------------------------------
(* The pool as a state machine *)

Init ==
    /\ accounts = << >>
    /\ current_index = 0
    /\ acct = [a \in Ids |-> NewAccount]
    /\ now = Now0
    /\ lastOp = NoResult
    /\ pristine = TRUE
    /\ streak = [a \in Ids |-> 0]
    /\ before_report = NotReported
    /\ TokenInit
    /\ ClientInit
    /\ RouteInit
    /\ ConfigInit
    /\ DecodeInit
    /\ ParserInit

\* AccountPool.add_account (startup, and the admin route, which refuses an
\* email that is already in the pool). The account objects are numbered in
\* the order of their construction, so the sequence is increasing.
AddAccount(a) ==
    /\ \A b \in Range(accounts) : b < a
    /\ accounts' = Append(accounts, a)
    /\ acct' = [acct EXCEPT ![a] = NewAccount]
    /\ before_report' = NotReported
    /\ lastOp' = NoResult
    /\ pristine' = (pristine /\ TotalRequests = 0)
    /\ streak' = [streak EXCEPT ![a] = 0]
    /\ UNCHANGED <<current_index, now, tokenVars, clientVars, otherVars>>

\* AccountPool.get_available_account
Acquire ==
    LET r == get_available_account(accounts, current_index, acct, now)
    IN  /\ current_index' = r.idx
        /\ acct' = r.A
        /\ before_report' = NotReported
        /\ lastOp' = Op("acquire", r.res, r.acct, r.avail, 0)
        /\ pristine' = (pristine /\ r.res = "ok" /\ \A a \in Ids : r.avail[a] # "no")
        /\ streak' = [a \in Ids |-> IF r.A[a].status = EXPIRED THEN -1 ELSE streak[a]]
        /\ UNCHANGED <<accounts, now, tokenVars, clientVars, otherVars>>

\* AccountPool.handle_error
ReportError(a, code) ==
    /\ a \in Range(accounts)
    /\ acct' = [acct EXCEPT ![a] = handle_error(acct[a], code, now)]
    /\ before_report' = acct[a]
    /\ lastOp' = Op("report", "ok", a, NoCheck, code)
    /\ pristine' = FALSE
    /\ streak' = [streak EXCEPT ![a] = IF code \in {401, 403, 429} \/ streak[a] < 0
                                       THEN -1 ELSE streak[a] + 1]
    /\ UNCHANGED <<accounts, current_index, now, tokenVars, clientVars, otherVars>>

\* AccountPool.cleanup_expired_accounts
CleanupExpired ==
    LET kept == active_accounts(accounts, now)
    IN  /\ accounts' = kept
        /\ current_index' = reset_index(current_index, Len(kept))
        /\ acct' = [a \in Ids |-> IF a \in Range(kept) THEN acct[a] ELSE NewAccount]
        /\ before_report' = NotReported
        /\ lastOp' = Op("cleanup", "ok", 0, NoCheck, Len(accounts) - Len(kept))
        /\ pristine' = (pristine /\ kept = accounts)
        /\ streak' = [a \in Ids |-> IF a \in Range(accounts) /\ a \notin Range(kept)
                                    THEN 0 ELSE streak[a]]
        /\ UNCHANGED <<now, tokenVars, clientVars, otherVars>>

\* delete_account (admin route)
DeleteAccount(a) ==
    /\ a \in Range(accounts)
    /\ accounts' = remove_account(accounts, a)
    /\ current_index' = index_after_delete(current_index, Len(accounts) - 1)
    /\ acct' = [acct EXCEPT ![a] = NewAccount]
    /\ before_report' = NotReported
    /\ lastOp' = NoResult
    /\ pristine' = FALSE
    /\ streak' = [streak EXCEPT ![a] = 0]
    /\ UNCHANGED <<now, tokenVars, clientVars, otherVars>>

\* AccountPool.get_pool_status / get_accounts_status: is_available() is
\* called on every account of the pool
PoolStatus ==
    /\ accounts # << >>
    /\ acct' = [a \in Ids |-> IF a \in Range(accounts)
                              THEN after_available_check(a, acct[a], now)
                              ELSE acct[a]]
    /\ before_report' = NotReported
    /\ lastOp' = Op("status", "ok", 0,
                    [a \in Ids |-> IF a \notin Range(accounts) THEN "none"
                                   ELSE IF is_available(a, acct[a], now) THEN "yes"
                                   ELSE "no"], 0)
    /\ streak' = [a \in Ids |-> IF acct'[a].status = EXPIRED THEN -1 ELSE streak[a]]
    /\ UNCHANGED <<accounts, current_index, now, pristine, tokenVars, clientVars, otherVars>>

\* time passes
Tick ==
    /\ now < Now0 + MaxTicks * TickSeconds
    /\ now' = now + TickSeconds
    /\ before_report' = NotReported
    /\ lastOp' = NoResult
    /\ UNCHANGED <<accounts, current_index, acct, pristine, streak, tokenVars, clientVars, otherVars>>

\* An endpoint handles a request: it acquires an account, calls the client,
\* which comes to `up`, and reports to the pool what handle_request says
Handle(q, up) ==
    LET r == get_available_account(accounts, current_index, acct, now)
        h == handle_request(q.ep, q.stream, r.res, up)
        reported == h.reports # << >>
    IN  /\ lastReq.n < RouteRequests
        /\ r.res # "ok" => up.kind = "ok"
        /\ current_index' = r.idx
        /\ acct' = IF reported
                   THEN [r.A EXCEPT ![r.acct] = handle_error(r.A[r.acct], h.reports[1], now)]
                   ELSE r.A
        /\ before_report' = IF reported THEN r.A[r.acct] ELSE NotReported
        /\ lastOp' = IF reported THEN Op("report", "ok", r.acct, NoCheck, h.reports[1])
                     ELSE Op("acquire", r.res, r.acct, r.avail, 0)
        /\ pristine' = (/\ pristine /\ ~reported /\ r.res = "ok"
                        /\ \A a \in Ids : r.avail[a] # "no")
        /\ streak' = [a \in Ids |->
                         IF r.A[a].status = EXPIRED THEN -1
                         ELSE IF reported /\ a = r.acct
                         THEN IF h.reports[1] \in {401, 403, 429} \/ streak[a] < 0
                              THEN -1 ELSE streak[a] + 1
                         ELSE streak[a]]
        /\ lastReq' = [n |-> lastReq.n + 1, ep |-> q.ep, stream |-> q.stream,
                       acquire |-> r.res, acct |-> r.acct,
                       up |-> IF r.res = "ok" THEN up ELSE NoRequest.up,
                       http |-> h.http, reports |-> h.reports]
        /\ UNCHANGED <<accounts, now, tokenVars, clientVars, pureVars>>

\* AccountPool.warn_expiring_accounts
WarnExpiring ==
    /\ before_report' = NotReported
    /\ lastOp' = WarnResult(warn_expiring_accounts(accounts, now))
    /\ UNCHANGED <<accounts, current_index, acct, now, pristine, streak,
                   tokenVars, clientVars, otherVars>>

\* a day passes
TickDay ==
    /\ now + DaySeconds <= Now0 + MaxTicks * TickSeconds + MaxDays * DaySeconds
    /\ now' = now + DaySeconds
    /\ before_report' = NotReported
    /\ lastOp' = NoResult
    /\ UNCHANGED <<accounts, current_index, acct, pristine, streak,
                   tokenVars, clientVars, otherVars>>

\* Pools of any number of the accounts, with few error reports (rotation runs)
Next ==
    \/ \E a \in Ids : AddAccount(a)
    \/ TotalRequests < MaxRequests /\ Acquire
    \/ \E a \in Ids, code \in RotationCodes :
           TotalErrors < MaxErrors /\ ReportError(a, code)
    \/ CleanupExpired
    \/ \E a \in Ids : DeleteAccount(a)
    \/ PoolStatus
    \/ Tick

Spec == Init /\ [][Next]_vars

\* Pools of one account at a time, with every status code and enough
\* reports to disable an account (lifecycle runs)
NextLife ==
    \/ \E a \in Ids : accounts = << >> /\ AddAccount(a)
    \/ TotalRequests < LifeRequests /\ Acquire
    \/ \E a \in Ids, code \in StatusCodes :
           TotalErrors < LifeErrors /\ ReportError(a, code)
    \/ CleanupExpired
    \/ \E a \in Ids : DeleteAccount(a)
    \/ PoolStatus
    \/ Tick

SpecLife == Init /\ [][NextLife]_vars

\* One TokenManager and its callers (token runs)
SpecToken == Init /\ [][NextToken]_vars

\* One GeminiClient and its sends (client runs)
SpecClient == Init /\ [][NextClient]_vars

\* Pools of any number of the accounts with one of them rate limited, and
\* two laps of acquires (skipping runs)
NextSkip ==
    \/ \E a \in Ids : AddAccount(a)
    \/ TotalRequests < SkipRequests /\ Acquire
    \/ \E a \in Ids : TotalErrors < MaxErrors /\ ReportError(a, 429)
    \/ Tick

SpecSkip == Init /\ [][NextSkip]_vars

\* Pools of any number of the accounts and the requests the endpoints
\* handle (endpoint runs)
NextRoute ==
    \/ \E a \in Ids : AddAccount(a)
    \/ \E q \in Requests, up \in Upstream : Handle(q, up)
    \/ Tick

SpecRoute == Init /\ [][NextRoute]_vars

\* Pools of any number of the accounts over the thirty days of the trial
\* (expiry-warning runs)
NextWarn ==
    \/ \E a \in Ids : AddAccount(a)
    \/ WarnExpiring
    \/ CleanupExpired
    \/ Tick
    \/ TickDay

SpecWarn == Init /\ [][NextWarn]_vars

\* One ConfigLoader and the files it loads (configuration runs)
SpecConfig == Init /\ [][NextConfig]_vars

\* One response body and the lines it arrives in (parser runs)
SpecParser == Init /\ [][NextParser]_vars

\* One response and its two deliveries (decoding runs)
SpecDecode == Init /\ [][NextDecode]_vars

----------------------------------------------------------------------------
(* Properties of the account pool *)

Pos(seq, a) == CHOOSE i \in 1..Len(seq) : seq[i] = a

Returned(op) == op.op = "acquire" /\ op.res = "ok"

\* C1: in a pool of N accounts that was built and then only acquired from,
\* with every account available, the k-th acquire returns account
\* ((k-1) mod N)+1 of the insertion order: after k acquires the cursor is
\* k mod N and account i was returned once per completed lap, plus once if
\* i <= k mod N. So N acquires return each account once, in order, and the
\* (N+1)-th returns the first again.
RoundRobinFair ==
    (pristine /\ accounts # << >>) =>
        LET N == Len(accounts)
            k == TotalRequests
        IN  /\ current_index = k % N
            /\ \A i \in 1..N :
                   acct[accounts[i]].request_count =
                       (k \div N) + (IF i <= k % N THEN 1 ELSE 0)
            /\ (lastOp.op = "acquire" =>
                   Returned(lastOp) /\ lastOp.acct = accounts[((k - 1) % N) + 1])

\* C1 witness: three accounts, four acquires, the fourth returned the first
RoundRobinWrapped ==
    /\ pristine
    /\ Len(accounts) = 3
    /\ TotalRequests = 4
    /\ Returned(lastOp)
    /\ lastOp.acct = accounts[1]
    /\ \A i \in 2..3 : acct[accounts[i]].request_count = 1

\* C2: an account whose status is Error keeps a status that is neither
\* Active nor a cooldown status, and is not returned by acquire, whatever
\* operation comes next.
ErrorIsTerminal ==
    [][\A a \in Ids :
          (a \in Range(accounts) /\ a \in Range(accounts') /\ acct[a].status = ERROR)
              => /\ acct'[a].status \notin ({ACTIVE} \cup CooldownStatuses)
                 /\ ~(Returned(lastOp') /\ lastOp'.acct = a)]_vars

\* An availability check of account a is made in this step
Checked(a) == lastOp'.op \in {"acquire", "status"} /\ lastOp'.avail[a] # "none"

\* acquire never returns an account whose cooldown deadline is ahead
NotReturnedInCooldown ==
    Returned(lastOp') =>
        ~(acct[lastOp'.acct].cooldown_until # 0
          /\ now < acct[lastOp'.acct].cooldown_until)

\* C3 as stated: acquire never returns an account before its cooldown
\* deadline, and the first availability check at or after the deadline
\* reports the account available, clears the deadline and resets the status
\* to Active.
CooldownEndsAvailable ==
    [][/\ NotReturnedInCooldown
       /\ \A a \in Ids :
              (Checked(a) /\ acct[a].cooldown_until # 0
                          /\ now >= acct[a].cooldown_until)
                  => /\ lastOp'.avail[a] = "yes"
                     /\ acct'[a].cooldown_until = 0
                     /\ acct'[a].status = ACTIVE]_vars

\* C3 amended: acquire never returns an account before its cooldown
\* deadline; the first availability check at or after the deadline of an
\* account that has not expired clears the deadline, and if the status is
\* still a cooldown status it resets it to Active and reports the account
\* available; a disabled (Error) account stays unavailable, and an expired
\* account is reported unavailable with its deadline left in place.
CooldownEndsUnlessExpiredOrError ==
    [][/\ NotReturnedInCooldown
       /\ \A a \in Ids :
              (Checked(a) /\ acct[a].cooldown_until # 0
                          /\ now >= acct[a].cooldown_until)
                  => IF is_expired(a, now)
                     THEN /\ lastOp'.avail[a] = "no"
                          /\ acct'[a].cooldown_until = acct[a].cooldown_until
                          /\ acct'[a].status = EXPIRED
                     ELSE /\ acct'[a].cooldown_until = 0
                          /\ IF acct[a].status \in CooldownStatuses
                             THEN /\ lastOp'.avail[a] = "yes"
                                  /\ acct'[a].status = ACTIVE
                             ELSE /\ lastOp'.avail[a] = "no"
                                  /\ acct'[a].status = ERROR]_vars

\* C3 witness: an acquire made at the deadline of a reported account
\* returned it, with the deadline cleared and the status Active again
CooldownElapsedReturned ==
    /\ Returned(lastOp)
    /\ acct[lastOp.acct].error_count = 1
    /\ acct[lastOp.acct].cooldown_until = 0
    /\ acct[lastOp.acct].status = ACTIVE
    /\ now = Now0 + Cooldown401

\* acquire never returns an account for which is_expired() is true
NeverReturnsExpired ==
    Returned(lastOp) => ~is_expired(lastOp.acct, now)

\* the sweep removes exactly the expired accounts, keeps the others in their
\* relative order and returns the number removed
SweepStep ==
    lastOp'.op = "cleanup" =>
        /\ Range(accounts') = {a \in Range(accounts) : ~is_expired(a, now)}
        /\ Len(accounts') = Cardinality(Range(accounts'))
        /\ \A i, j \in 1..Len(accounts') :
               i < j => Pos(accounts, accounts'[i]) < Pos(accounts, accounts'[j])
        /\ lastOp'.n = Cardinality({a \in Range(accounts) : is_expired(a, now)})

\* C4: an expired account is never returned by acquire, and the sweep
\* removes exactly the expired accounts, keeps the others in order and
\* returns the number removed.
ExpiredNeverServedAndSwept ==
    []NeverReturnsExpired /\ [][SweepStep]_vars

\* C4 witness: a sweep of a pool of three removed one account and kept two
SweptOneOfThree ==
    /\ lastOp.op = "cleanup"
    /\ lastOp.n = 1
    /\ Len(accounts) = 2

\* C5 as stated: after every report, whatever its code, an error counter of
\* 5 or more means the status is Error.
ThresholdUnconditional ==
    lastOp.op = "report" =>
        (acct[lastOp.acct].error_count >= ErrorThreshold
            => acct[lastOp.acct].status = ERROR)

CooldownStatusOf(code) ==
    IF code = 401 THEN COOLDOWN_401
    ELSE IF code = 403 THEN COOLDOWN_403
    ELSE COOLDOWN_429

\* C5 amended: after a report with a code other than 401, 403 and 429, an
\* error counter of 5 or more means the status is Error; a report with 401,
\* 403 or 429 counts in the same counter but leaves the status at that
\* code's cooldown status, also when the counter is 5 or more.
ThresholdOnlyForOtherCodes ==
    lastOp.op = "report" =>
        IF lastOp.n \in {401, 403, 429}
        THEN acct[lastOp.acct].status = CooldownStatusOf(lastOp.n)
        ELSE (acct[lastOp.acct].error_count >= ErrorThreshold
                 => acct[lastOp.acct].status = ERROR)

\* C5 witness: a fifth error, reported with code 500 after a cooldown code
\* had been counted, disabled the account
FifthErrorDisables ==
    /\ lastOp.op = "report"
    /\ lastOp.n = 500
    /\ acct[lastOp.acct].error_count = ErrorThreshold
    /\ acct[lastOp.acct].cooldown_until # 0
    /\ acct[lastOp.acct].status = ERROR

\* C6: in a non-empty pool the cursor is a valid index of the sequence.
CursorInBounds ==
    accounts # << >> => (0 <= current_index /\ current_index < Len(accounts))

----------------------------------------------------------------------------
(* Properties of the token manager *)

FailedAnswers == {"non200", "network", "no_secret", "bad_secret"}

\* C7: every get_token() call that found the cached token absent or due
\* for refresh, saw no secret fetch fail and returned within the refresh
\* period saw exactly one refresh complete during the call, and all such
\* callers of one refresh generation were handed the token of that refresh.
SingleFlightRefresh ==
    Qualified(lastReturn) =>
        /\ lastReturn.seen = 1
        /\ lastReturn.tok = jwt_token
        /\ given.gen = lastReturn.gen
        /\ given.tok = lastReturn.tok

\* C7 witness: three callers that called while no token was cached were all
\* handed the token of the one refresh made
ThreeCallersOneRefresh ==
    /\ Qualified(lastReturn)
    /\ lastReturn.gen = 0
    /\ given.n = 3
    /\ refreshes = 1

\* C8: a token is handed to a caller only while now < expiry - 30 s.
ReturnedTokenIsFresh ==
    lastReturn.kind = "token" => lastReturn.remaining > refresh_before_seconds

\* C8 witness: a caller that found the cached token inside its last 30
\* seconds was handed a token from a new refresh
NearExpiryRefreshed ==
    /\ lastReturn.kind = "token"
    /\ lastReturn.stale
    /\ lastReturn.gen = 1
    /\ lastReturn.seen = 1
    /\ lastReturn.remaining = token_validity_seconds

\* C9: after a failed secret fetch the cached token is empty and its expiry
\* is 0, the call raised, and no call returns a token until a refresh has
\* succeeded; a returned token is always the one cached by the last
\* successful refresh.
FailedRefreshClearsToken ==
    /\ lastRefresh \in FailedAnswers =>
           /\ jwt_token = NoJwt
           /\ token_expires_at = 0
           /\ lastReturn.kind \in {"none", "error"}
    /\ lastReturn.kind = "token" =>
           /\ lastRefresh = "ok"
           /\ lastReturn.tok = jwt_token
           /\ lastReturn.tok # NoJwt

\* C9 witness: a refresh failed after an earlier one had cached a token, and
\* the call raised
RefreshFailedAfterSuccess ==
    /\ lastRefresh \in FailedAnswers
    /\ refreshes >= 1
    /\ lastReturn.kind = "error"

Answered == \E p \in Callers : pc[p] = "fetching" /\ pc'[p] = "idle"

----------------------------------------------------------------------------
(* Properties of the client's retry loop *)

\* An attempt that met a retryable failure: 429, a 5xx status or a
\* transport error
Retryable(h) ==
    \/ h.kind = "transport"
    \/ h.kind = "status" /\ (h.code = 429 \/ h.code >= 500)

\* An attempt that met a client-class status other than 429
ClientError(h) ==
    h.kind = "status" /\ h.code \in 400..499 /\ h.code # 429

\* An attempt whose send_message returned
Succeeded(h) == h.stage = "chat" /\ h.kind = "status" /\ h.code = 200

\* The exception object that the attempt recorded at place i of the history
\* raised
ErrorOf(i) ==
    Err(i - 1, IF history[i].kind = "status" THEN "http_error" ELSE "request_error",
        history[i].code)

\* C11: when every attempt of a send_message_with_retry call fails with a
\* retryable error (429, 5xx, transport error), the call makes exactly
\* 1 + max_retries attempts (4 with the default) and then raises the error
\* object of its last attempt; before that it is still running.
RetriesExhausted ==
    (history # << >> /\ \A i \in 1..Len(history) : Retryable(history[i]))
        => IF send_pc = "running"
           THEN Len(history) < send_call.max_retries + 1
           ELSE /\ Len(history) = send_call.max_retries + 1
                /\ send_result.kind = "raised"
                /\ send_result.err = ErrorOf(Len(history))
                /\ send_result.err = send_call.last_error

\* C11 witness: a call with the default max_retries raised the error of its
\* fourth attempt, after a transport error, a 429 and two 500s
FourAttemptsThenRaised ==
    /\ send_pc = "idle"
    /\ send_call.max_retries = MAX_RETRIES
    /\ Len(history) = 4
    /\ history[1].kind = "transport"
    /\ history[2].code = 429
    /\ history[3].code = 500
    /\ history[4].code = 500
    /\ send_result.kind = "raised"
    /\ send_result.err.attempt = 3

\* C12: an attempt answered with a client-class status (400-499) other than
\* 429 is never followed by another attempt: it is the last attempt of the
\* call, and the call raises its error; when it is the answer to the first
\* attempt the call has made exactly one attempt, whatever max_retries is.
ClientErrorNotRetried ==
    \A i \in 1..Len(history) :
        ClientError(history[i])
            => /\ i = Len(history)
               /\ send_pc = "idle"
               /\ send_result.kind = "raised"
               /\ send_result.err = ErrorOf(i)

\* C12 witness: a call with three retries allowed raised the 403 that
\* answered its first attempt
Raised403AtOnce ==
    /\ send_pc = "idle"
    /\ send_call.max_retries = MAX_RETRIES
    /\ Len(history) = 1
    /\ history[1].code = 403
    /\ send_result.kind = "raised"
    /\ send_result.err.code = 403

\* C13: once a finished send_message_with_retry call has observed a 401
\* response, the cached session name is null.
SessionClearedAfter401 ==
    (send_pc = "idle"
        /\ \E i \in 1..Len(history) :
               history[i].kind = "status" /\ history[i].code = 401)
        => session_name = 0

\* C14: a call whose first attempt receives a 401 and which has a retry
\* left makes a second attempt, and the session cache is empty at the start
\* of that second attempt.
RetriedAfter401 ==
    (send_pc = "idle" /\ history # << >> /\ send_call.max_retries >= 1
        /\ history[1].kind = "status" /\ history[1].code = 401)
        => /\ Len(history) >= 2
           /\ ~history[2].had_session

\* C20: a retryable failure with an attempt left in the budget is followed
\* by another attempt; the first attempt that succeeds is the last attempt
\* of the call, its response is what the call returns, and no error of the
\* earlier attempts is handed to the caller.
RetryUntilSuccess ==
    history # << >> =>
        LET n == Len(history) IN
        /\ \A i \in 1..(n - 1) : Retryable(history[i]) /\ ~Succeeded(history[i])
        /\ send_pc = "running" => Retryable(history[n])
        /\ (send_pc = "idle" /\ Retryable(history[n]))
               => n = send_call.max_retries + 1
        /\ Succeeded(history[n])
               => /\ send_pc = "idle"
                  /\ send_result.kind \in {"ok", "generator", "streamed", "stream_error"}
                  /\ send_result.attempt = n - 1
                  /\ send_result.session = session_name
                  /\ send_result.session # 0
                  /\ send_result.kind \in {"ok", "generator"}
                         => send_result.err = NoError

\* C20 witness: a call returned the response of its third attempt after a
\* transport error and a 429
ThirdAttemptSucceeded ==
    /\ send_pc = "idle"
    /\ Len(history) = 3
    /\ history[1].kind = "transport"
    /\ history[2].code = 429
    /\ send_result.kind = "ok"
    /\ send_result.attempt = 2

----------------------------------------------------------------------------
(* Properties of acquiring and of error reports *)

\* Account a passes the availability test at the present instant: it has
\* not expired, no cooldown deadline is ahead and it is not disabled
Usable(a) ==
    /\ ~is_expired(a, now)
    /\ ~(acct[a].cooldown_until # 0 /\ now < acct[a].cooldown_until)
    /\ acct[a].status # ERROR

\* This step is a call of get_available_account
AcquireStep == lastOp'.op = "acquire" /\ (lastOp' # lastOp \/ acct' # acct)

\* The account at cyclic distance d after account a in the sequence
Following(a, d) ==
    accounts[((Pos(accounts, a) - 1 + d) % Len(accounts)) + 1]

\* The first usable account after account a in the cyclic insertion order
\* (a itself when no other is usable)
NextUsableAfter(a) ==
    LET d0 == CHOOSE d \in 1..Len(accounts) :
                  /\ Usable(Following(a, d))
                  /\ \A e \in 1..(d - 1) : ~Usable(Following(a, e))
    IN  Following(a, d0)

\* C15: two acquire calls made one right after the other (the calls of two
\* concurrent acquirers, which the lock runs one at a time) return
\* different accounts unless every other account of the pool is
\* unavailable; every acquire that returns leaves the cursor one past the
\* account it returned, so no advance is lost or made twice.
ConcurrentAcquirersDiffer ==
    [][(AcquireStep /\ Returned(lastOp'))
          => /\ current_index' = Pos(accounts, lastOp'.acct) % Len(accounts)
             /\ (Returned(lastOp) /\ lastOp'.acct = lastOp.acct)
                    => \A b \in Range(accounts) \ {lastOp.acct} : ~Usable(b)]_vars

\* C15 witness: in a pool of three the second of two acquires found the
\* other two accounts unavailable, wrapped round and returned the same
\* account again
WrappedToSameAccount ==
    /\ Returned(lastOp)
    /\ Len(accounts) = 3
    /\ \A b \in Range(accounts) \ {lastOp.acct} :
           lastOp.avail[b] = "no" /\ acct[b].request_count = 0
    /\ acct[lastOp.acct].request_count = 2

\* C16: right after report_error with code 401 the account's deadline is
\* the report time + 7200 s and its status the auth cooldown, with 403 the
\* report time + 7200 s and the forbidden cooldown, with 429 the report
\* time + 14400 s and the rate-limit cooldown; the three statuses differ
\* and the account is not available.
CooldownSetByCode ==
    /\ Cardinality({COOLDOWN_401, COOLDOWN_403, COOLDOWN_429}) = 3
    /\ (lastOp.op = "report" /\ lastOp.n \in {401, 403, 429})
           => LET a == acct[lastOp.acct] IN
              /\ lastOp.n = 401 => (a.cooldown_until = now + 7200
                                    /\ a.status = COOLDOWN_401)
              /\ lastOp.n = 403 => (a.cooldown_until = now + 7200
                                    /\ a.status = COOLDOWN_403)
              /\ lastOp.n = 429 => (a.cooldown_until = now + 14400
                                    /\ a.status = COOLDOWN_429)
              /\ ~is_available(lastOp.acct, a, now)
              /\ ~Usable(lastOp.acct)

\* C16 witness: a 429 was reported two hours after the pool was built
RateLimitedLater ==
    /\ lastOp.op = "report"
    /\ lastOp.n = 429
    /\ now = Now0 + TickSeconds
    /\ acct[lastOp.acct].status = COOLDOWN_429
    /\ acct[lastOp.acct].cooldown_until = Now0 + TickSeconds + Cooldown429

\* C17: an account on which, since it was new, only k error reports with a
\* code other than 401, 403 and 429 were made (and which no availability
\* test has found expired) has error counter k, no cooldown deadline, and
\* status Active when k < 5 and Error when k >= 5.
OnlyOtherErrors ==
    \A a \in Range(accounts) :
        streak[a] >= 0
            => /\ acct[a].error_count = streak[a]
               /\ acct[a].cooldown_until = 0
               /\ acct[a].status = IF streak[a] < 5 THEN ACTIVE ELSE ERROR

\* C17 witness: a sixth error with code 500 was reported on a new account
SixthErrorReported ==
    /\ lastOp.op = "report"
    /\ lastOp.n = 500
    /\ streak[lastOp.acct] = 6
    /\ acct[lastOp.acct].status = ERROR

\* C18: acquire never returns an account that fails the availability test,
\* and of two acquire calls made one right after the other the second
\* returns the first available account after the one the first returned,
\* in the cyclic insertion order: the calls cycle through exactly the
\* available accounts.
CyclesThroughAvailable ==
    [][AcquireStep
          => /\ Returned(lastOp') => Usable(lastOp'.acct)
             /\ Returned(lastOp)
                    => /\ Returned(lastOp')
                       /\ lastOp'.acct = NextUsableAfter(lastOp.acct)]_vars

\* C18 witness: with account 2 of three in its 429 cooldown, six acquires
\* were shared three and three by accounts 1 and 3, the last going to 3
SixAcquiresSkipSecond ==
    /\ accounts = <<1, 2, 3>>
    /\ now = Now0
    /\ acct[2].status = COOLDOWN_429
    /\ acct[2].request_count = 0
    /\ acct[1].request_count = 3
    /\ acct[3].request_count = 3
    /\ Returned(lastOp)
    /\ lastOp.acct = 3
    /\ lastOp.avail[2] = "no"
    /\ current_index = 0

\* C19: acquire raises the pool-empty error iff the sequence is empty,
\* raises the no-available-account error iff the sequence is not empty and
\* no account passes the availability test, and otherwise returns an
\* available account of the pool, after testing every account at most once.
AcquireOutcome ==
    lastOp.op = "acquire" =>
        /\ Cardinality({a \in Ids : lastOp.avail[a] # "none"}) <= Len(accounts)
        /\ IF accounts = << >> THEN lastOp.res = "pool_empty"
           ELSE IF \A a \in Range(accounts) : ~Usable(a)
                THEN lastOp.res = "no_available"
                ELSE /\ lastOp.res = "ok"
                     /\ lastOp.acct \in Range(accounts)
                     /\ Usable(lastOp.acct)

----------------------------------------------------------------------------
(* C21: retries in streaming delivery *)

\* C21: the consumer of a stream=True call sees a 429 or 5xx answer to the
\* message POST only after the attempt budget (1 + max_retries) of
\* send_message_with_retry is used up.
StreamFailureAfterBudget ==
    (/\ send_result.kind = "stream_error"
     /\ send_result.err.kind = "http_error"
     /\ (send_result.err.code = 429 \/ send_result.err.code >= 500))
        => Len(history) = range_len(send_call.max_retries)

----------------------------------------------------------------------------
(* C22: one backend session per client *)

\* C22: on one client, as long as no request was answered with 401, the
\* session creation has succeeded at most once, and every message and upload
\* payload posted carries the one cached session name.
OneSessionPerClient ==
    ~seen401 =>
        /\ sessions <= 1
        /\ \A p \in posted : p.session = session_name /\ p.session # 0

\* C22 witness: a message and an upload were both posted with the one
\* session the client created, two calls having been made
SendAndUploadShareSession ==
    /\ ~seen401
    /\ sends = 2
    /\ sessions = 1
    /\ posted = {Payload("message", 1), Payload("upload", 1)}

----------------------------------------------------------------------------
(* C23, C24: what the endpoints report and answer *)

\* C23: on every endpoint, in non-streaming and in streaming delivery, when
\* the send of a request that acquired an account fails with an HTTP status
\* of the backend, the handler reports that status to the pool exactly once
\* for the acquired account.
UpstreamFailureReportedOnce ==
    (lastReq.acquire = "ok" /\ lastReq.up.kind = "http_error") =>
        lastReq.reports = <<lastReq.up.code>>

\* C24: on every endpoint, a request that finds the pool empty or without
\* an available account is answered with HTTP 503, without an error report.
ExhaustionIsServiceUnavailable ==
    lastReq.acquire \in {"pool_empty", "no_available"} =>
        /\ lastReq.http = 503
        /\ lastReq.reports = << >>

----------------------------------------------------------------------------
(* C25: loading a document with an incomplete account *)

\* The entries of the loaded document that lack a required field
Incomplete == {i \in DOMAIN config_doc.accounts :
                   create_account(config_doc.accounts[i]).missing # {}}

\* The entries of the loaded document an Account can be made from
Loadable == {i \in DOMAIN config_doc.accounts :
                 create_account(config_doc.accounts[i]).ok}

\* A load of a document that lists several accounts, exactly one of which
\* lacks a required field while the others are valid
OneIncompleteOfSeveral ==
    /\ load_result.kind # "none"
    /\ Len(config_doc.accounts) >= 2
    /\ Cardinality(Incomplete) = 1
    /\ Loadable = DOMAIN config_doc.accounts \ Incomplete

\* C25 (as stated): when one of several accounts lacks a required field,
\* the other, valid accounts are still loaded and returned.
OthersStillLoaded ==
    OneIncompleteOfSeveral =>
        /\ load_result.kind = "accounts"
        /\ Range(load_result.accounts) = Loadable

\* C25 (amended): when one of several accounts lacks a required field,
\* load_accounts raises ValueError naming that account by its position and
\* listing its missing fields, and returns no account at all.
IncompleteAccountAbortsLoad ==
    OneIncompleteOfSeveral =>
        /\ load_result.kind = "ValueError"
        /\ load_result.index \in Incomplete
        /\ load_result.missing =
               RequiredFields \ config_doc.accounts[load_result.index].fields
        /\ load_result.accounts = << >>

\* C25 witness: the second of three accounts lacks team_id, and the load
\* raised for account #2 although the first and the third are valid
SecondOfThreeIncomplete ==
    /\ OneIncompleteOfSeveral
    /\ Len(config_doc.accounts) = 3
    /\ Incomplete = {2}
    /\ load_result = LoadResult("ValueError", << >>, 2, {"team_id"})

----------------------------------------------------------------------------
(* C26: what is_available() returns *)

\* C26: at every availability check (by an acquire or by a status query),
\* is_available() returns true iff the account is not expired, is not in a
\* cooldown whose deadline is still in the future, and has a status that is
\* neither Expired nor Error.
AvailableIff ==
    [][\A a \in Ids :
          Checked(a) =>
              ((lastOp'.avail[a] = "yes") <=>
                  /\ ~is_expired(a, now)
                  /\ ~(acct[a].cooldown_until # 0 /\ now < acct[a].cooldown_until)
                  /\ acct[a].status \notin {EXPIRED, ERROR})]_vars

\* C26 witness: a status query found an account unavailable that is neither
\* expired nor in cooldown but disabled after five errors
DisabledFoundUnavailable ==
    /\ lastOp.op = "status"
    /\ \E a \in Range(accounts) :
           /\ lastOp.avail[a] = "no"
           /\ ~is_expired(a, now)
           /\ acct[a].cooldown_until = 0
           /\ acct[a].status = ERROR
           /\ acct[a].error_count = ErrorThreshold

----------------------------------------------------------------------------
(* C27: when get_token() fetches the secret *)

\* C27: a get_token() call that holds the lock fetches the secret iff the
\* cached token is null or the present is not before expiry - 30 s. A call
\* that does not fetch returns the cached token and changes nothing of the
\* cache; a call that fetches does so once, and when the fetch succeeds it
\* returns the new token, which differs from the one it found.
RefreshIffDue ==
    [][\A p \in Callers :
          /\ (pc[p] = "waiting" /\ pc'[p] # "waiting") =>
                 /\ (pc'[p] = "fetching") <=>
                        \/ jwt_token = NoJwt
                        \/ now >= token_expires_at - refresh_before_seconds
                 /\ pc'[p] = "idle" =>
                        /\ lastReturn'.tok = jwt_token
                        /\ jwt_token' = jwt_token
                        /\ token_expires_at' = token_expires_at
                        /\ refreshes' = refreshes
                        /\ lastRefresh' = lastRefresh
          /\ (pc[p] = "fetching" /\ pc'[p] # "fetching") =>
                 /\ pc'[p] = "idle"
                 /\ lastReturn'.kind = "token" =>
                        /\ lastReturn'.tok = jwt_token'
                        /\ jwt_token' # jwt_token
                        /\ refreshes' = refreshes + 1]_vars

\* C27 witness: the first call fetched at the start, the second found 20 s
\* of validity left (280 s later) and fetched a new token, and the third,
\* with 100 s of that token left, got it from the cache without a fetch
RefreshedAt20CachedAt100 ==
    /\ calls = 3
    /\ refreshes = 2
    /\ jwt_token.iat = Now0 + 280
    /\ lastReturn.kind = "token"
    /\ lastReturn.tok = jwt_token
    /\ lastReturn.remaining = 100
    /\ lastReturn.seen = 0

----------------------------------------------------------------------------
(* C28: the two deliveries surface the same text *)

\* The replies of a response, in the order of the stream
RECURSIVE AllReplies(_)
AllReplies(chunks) ==
    IF chunks = << >> THEN << >>
    ELSE Head(chunks) \o AllReplies(Tail(chunks))

\* The concatenation of a sequence of texts
RECURSIVE Concat(_)
Concat(texts) ==
    IF texts = << >> THEN "" ELSE Head(texts) \o Concat(Tail(texts))

\* The fragments that are to be surfaced: not flagged as thought and not
\* empty, in the order of the stream
Surfaced(chunks) ==
    LET kept == SelectSeq(AllReplies(chunks),
                          LAMBDA r : r.text # "" /\ ~r.thought)
    IN  [i \in DOMAIN kept |-> kept[i].text]

\* C28: for the same sequence of decoded objects, the fragments yielded in
\* streaming mode are exactly the fragments that are neither thought nor
\* empty, in the order of the stream, and their concatenation is the
\* response text returned in non-streaming mode.
DeliveriesAgree ==
    /\ stream_out.done => stream_out.texts = Surfaced(resp_chunks)
    /\ complete_out.done => complete_out.response = Concat(Surfaced(resp_chunks))
    /\ (stream_out.done /\ complete_out.done) =>
           Concat(stream_out.texts) = complete_out.response

\* C28 witness: a response of three objects with a thought before an
\* answer, an empty fragment between two answers and an object without
\* replies was delivered both ways as "a" "b" "a"
ThoughtAndEmptyDropped ==
    /\ resp_chunks = << <<Reply("t", TRUE), Reply("a", FALSE)>>, << >>,
                        <<Reply("b", FALSE), Reply("", FALSE), Reply("a", FALSE)>> >>
    /\ stream_out = [done |-> TRUE, texts |-> <<"a", "b", "a">>]
    /\ complete_out = [done |-> TRUE, response |-> "aba"]

----------------------------------------------------------------------------
(* C29: the expiry warning *)

\* The seconds an account has left: to its explicit expiry if it has one,
\* else to the end of the 30 days after its creation
SecondsLeft(a) ==
    IF expires_at(a) # 0 THEN expires_at(a) - now
    ELSE created_at(a) + TrialSeconds - now

----------------------------------------------------------------------------
(* C30: the elements the decoder yields *)

\* The position in the text of the last character of the i-th element
RECURSIVE EndPos(_, _)
EndPos(elements, i) ==
    IF i = 0 THEN 0
    ELSE EndPos(elements, i - 1) + 1 + Len(elements[i])

\* The elements whose text lies wholly within the first n characters
CompleteIn(doc, n) ==
    Cardinality({i \in DOMAIN doc.elements : EndPos(doc.elements, i) <= n})

\* C30: however the text of the array is cut into lines, after every line
\* the decoder has yielded exactly the top-level elements that are complete
\* in the text fed so far, once each and in order (so all of them when the
\* text has been fed); a bracket, a brace or a comma inside a string value
\* neither changes the depth nor makes the decoder yield early.
YieldsCompleteElements ==
    /\ decoder.yielded =
           SubSeq(array_doc.elements, 1, CompleteIn(array_doc, fed))
    /\ fed = Len(array_doc.text) =>
           /\ decoder.yielded = array_doc.elements
           /\ decoder.depth = 0

\* C30 witness: a line ended inside the string "}" of the first of two
\* elements, right after the brace: the decoder is inside the string at
\* depth one and has yielded nothing
LineEndsAfterBraceInString ==
    /\ Len(array_doc.elements) = 2
    /\ array_doc.elements[1] =
           <<"{", "\"", "a", "\"", ":", "\"", "}", "\"", "}">>
    /\ fed = 8
    /\ decoder.in_string
    /\ decoder.depth = 1
    /\ decoder.buffer = SubSeq(array_doc.text, 2, 8)
    /\ decoder.yielded = << >>

----------------------------------------------------------------------------
(* C31: the cursor across the expiry sweep *)

\* C31: when the account that is next to try before a sweep is not removed
\* by it, that account is the one the cursor denotes after the sweep (the
\* first one the next acquire examines).
SweepKeepsNextToTry ==
    [][(/\ lastOp'.op = "cleanup"
        /\ current_index < Len(accounts)
        /\ ~is_expired(accounts[current_index + 1], now))
           => /\ current_index' < Len(accounts')
              /\ accounts'[current_index' + 1] = accounts[current_index + 1]]_vars

----------------------------------------------------------------------------
(* C32: the usage and error counters *)

\* C32: a successful acquire adds exactly 1 to the usage counter of the
\* account it returns and nothing to any other; an error report adds
\* exactly 1 to the error counter of the reported account, whatever the
\* code, and nothing to any other; and no operation lowers either counter
\* of an account that stays in the pool.
CountersCountUp ==
    [][/\ (lastOp'.op = "acquire" /\ lastOp'.res = "ok") =>
              \A a \in Ids :
                  acct'[a].request_count =
                      acct[a].request_count + (IF a = lastOp'.acct THEN 1 ELSE 0)
       /\ lastOp'.op = "report" =>
              \A a \in Ids :
                  acct'[a].error_count =
                      acct[a].error_count + (IF a = lastOp'.acct THEN 1 ELSE 0)
       /\ \A a \in Range(accounts) \cap Range(accounts') :
              /\ acct'[a].request_count >= acct[a].request_count
              /\ acct'[a].error_count >= acct[a].error_count]_vars

\* C32 witness: of three accounts the first was returned twice and the
\* second once, and a 429 then reported on the second was counted as its
\* one error while the others have none
UsedThriceReportedOnce ==
    /\ accounts = <<1, 2, 3>>
    /\ lastOp = Op("report", "ok", 2, NoCheck, 429)
    /\ acct[1].request_count = 2
    /\ acct[2].request_count = 1
    /\ acct[3].request_count = 1
    /\ acct[2].error_count = 1
    /\ acct[1].error_count = 0
    /\ acct[3].error_count = 0

----------------------------------------------------------------------------
(* C33, C34: who changes the account fields *)

\* C33: the fields of an account that stays in the pool are changed only by
\* an operation whose body runs while the pool lock is held.
FieldsChangeUnderLock ==
    [][(\E a \in Range(accounts) \cap Range(accounts') : acct'[a] # acct[a])
           => under_lock(lastOp'.op)]_vars

\* C34: the aggregate status view changes neither the account sequence,
\* the cursor, nor any field of any account.
StatusViewReadOnly ==
    [][lastOp'.op = "status" =>
           /\ accounts' = accounts
           /\ current_index' = current_index
           /\ acct' = acct]_vars

(* ------------------------------------------------------------------ *)
(* C35: an acquire that finds no available account                     *)
(* ------------------------------------------------------------------ *)

\* C35: a call of get_available_account that fails with the
\* no-available-account error has examined every account of the pool, leaves
\* the cursor at the value it had before the call, and changes no account's
\* request counter or last-used instant.
FailedAcquireKeepsCursor ==
    [][(lastOp'.op = "acquire" /\ lastOp'.res = "no_available")
           => /\ current_index' = current_index
              /\ \A a \in Range(accounts) : lastOp'.avail[a] = "no"
              /\ \A a \in Ids :
                     /\ acct'[a].request_count = acct[a].request_count
                     /\ acct'[a].last_used_at = acct[a].last_used_at]_vars

\* A pool of three whose cursor stands on the second account after an acquire
\* found none of them available
FailedAcquireMidPool ==
    /\ Len(accounts) = 3
    /\ current_index = 1
    /\ lastOp.op = "acquire"
    /\ lastOp.res = "no_available"
    /\ \A a \in Range(accounts) : lastOp.avail[a] = "no"

(* ------------------------------------------------------------------ *)
(* C36: a send whose token cannot be obtained                          *)
(* ------------------------------------------------------------------ *)

\* This step is an iteration of the retry loop in which get_token() raised
TokenFailureStep ==
    /\ Len(history') = Len(history) + 1
    /\ history'[Len(history')].stage = "token"

\* C36: when get_token() raises during a send, send_message_with_retry makes
\* no further attempt: the call ends in that iteration by raising that
\* exception, no message is posted, no session is created and the cached
\* session name is unchanged.
TokenFailureNotRetried ==
    [][TokenFailureStep
           => /\ send_pc' = "idle"
              /\ send_result'.kind = "raised"
              /\ send_result'.attempt = send_call.attempt
              /\ send_result'.err.kind = "exception"
              /\ posted' = posted
              /\ sessions' = sessions
              /\ session_name' = session_name]_vars

\* A call with the default retries and a cached session that ended on its
\* first attempt because get_token() raised
TokenFailedWithCachedSession ==
    /\ send_pc = "idle"
    /\ session_name # 0
    /\ send_call.max_retries = MAX_RETRIES
    /\ history = <<[had_session |-> TRUE, stage |-> "token",
                    kind |-> "exception", code |-> 0]>>
    /\ send_result.kind = "raised"
    /\ send_result.attempt = 0
    /\ posted = {Payload("message", session_name)}

(* ------------------------------------------------------------------ *)
(* C37: the refresh lock on the failing paths of get_token()           *)
(* ------------------------------------------------------------------ *)

\* C37: every exit of get_token(), with a token or with an error, takes the
\* caller out of the lock and hands the lock to the caller that waited
\* behind it; a waiting caller returns without a fetch of its own only when
\* a token is cached, so after a failed refresh every later and every
\* waiting caller fetches the secret itself; and a fetch that fails raises
\* to the caller that made it and leaves no token cached.
LockReleasedOnEveryExit ==
    [][\A p \in Callers :
           /\ (pc[p] # "idle" /\ pc'[p] = "idle")
                  => /\ \A i \in 1..Len(refresh_lock') : refresh_lock'[i] # p
                     /\ Len(refresh_lock) > 1
                            => holds_lock(refresh_lock', refresh_lock[2])
           /\ (pc[p] = "waiting" /\ pc'[p] = "idle")
                  => /\ jwt_token # NoJwt
                     /\ lastReturn'.kind = "token"
           /\ (pc[p] = "fetching" /\ pc'[p] = "idle" /\ lastRefresh' # "ok")
                  => /\ lastReturn'.who = p
                     /\ lastReturn'.kind = "error"
                     /\ jwt_token' = NoJwt]_vars

\* Three callers queued while no token was cached and the backend failed:
\* the first two each fetched and were refused, the second after it had
\* seen the first fail, and the third now holds the lock with no token to
\* return
ThirdCallerAfterTwoFailures ==
    /\ calls = 3
    /\ refreshes = 0
    /\ lastReturn.who = 2
    /\ lastReturn.kind = "error"
    /\ lastReturn.failed
    /\ pc = [p \in Callers |-> IF p = 3 THEN "waiting" ELSE "idle"]
    /\ call[3].failed
    /\ holds_lock(refresh_lock, 3)
    /\ jwt_token = NoJwt

(* ------------------------------------------------------------------ *)
(* C38: a cooldown code reported during a cooldown                     *)
(* ------------------------------------------------------------------ *)

\* C38: a report of 401, 403 or 429 sets the account's deadline to the
\* report time plus that code's duration and its status to that code's
\* status, whatever deadline and status the account had, also when the
\* account was in a cooldown that ended later.
CooldownReportOverwrites ==
    [][(lastOp'.op = "report" /\ lastOp'.n \in {401, 403, 429})
           => LET a == lastOp'.acct
                  code == lastOp'.n
              IN  /\ acct'[a].cooldown_until =
                         now + (IF code = 429 THEN Cooldown429
                                ELSE IF code = 403 THEN Cooldown403 ELSE Cooldown401)
                  /\ acct'[a].status =
                         (IF code = 429 THEN COOLDOWN_429
                          ELSE IF code = 403 THEN COOLDOWN_403 ELSE COOLDOWN_401)]_vars

\* A 401 was reported on an account in a 429 cooldown with more than two
\* hours left: the deadline is now two hours away, earlier than it was
RateLimitCooldownShortened ==
    /\ lastOp.op = "report"
    /\ lastOp.n = 401
    /\ before_report.status = COOLDOWN_429
    /\ before_report.cooldown_until = now + Cooldown429
    /\ acct[lastOp.acct].status = COOLDOWN_401
    /\ acct[lastOp.acct].cooldown_until = now + Cooldown401
    /\ acct[lastOp.acct].cooldown_until < before_report.cooldown_until

(* ------------------------------------------------------------------ *)
(* C39: a send that fails without an HTTP status                       *)
(* ------------------------------------------------------------------ *)

\* This step is a request that acquired an account and whose client call
\* failed with an error that has no HTTP status
StatuslessFailureStep ==
    /\ lastReq'.n = lastReq.n + 1
    /\ lastReq'.acquire = "ok"
    /\ lastReq'.up.kind \in {"request_error", "exception"}

\* C39: when the send of a request fails with an error that carries no HTTP
\* status, the handler makes no error report, the acquired account has the
\* status, the cooldown deadline and the error count it had before the
\* request, and the request is answered with HTTP 500.
StatuslessFailureNotReported ==
    [][StatuslessFailureStep
           => LET a == lastReq'.acct
              IN  /\ lastReq'.reports = << >>
                  /\ acct'[a].status = acct[a].status
                  /\ acct'[a].cooldown_until = acct[a].cooldown_until
                  /\ acct'[a].error_count = acct[a].error_count
                  /\ lastReq'.http = 500]_vars

(* ------------------------------------------------------------------ *)
(* C40: cooldown status and cooldown deadline                          *)
(* ------------------------------------------------------------------ *)

\* C40: an account of the pool whose status is one of the three cooldown
\* statuses has a deadline other than zero; a deadline goes to zero only in
\* an operation that runs the availability check, once the deadline has
\* passed, and the account then has no cooldown status; and an account gets
\* a cooldown status only from an error report, together with a deadline
\* counted from the time of that report.
CooldownStatusHasDeadline ==
    /\ [](\A a \in Range(accounts) :
              acct[a].status \in CooldownStatuses => acct[a].cooldown_until > 0)
    /\ [][\A a \in Range(accounts) \cap Range(accounts') :
              /\ (acct[a].cooldown_until # 0 /\ acct'[a].cooldown_until = 0)
                     => /\ lastOp'.op \in {"acquire", "status"}
                        /\ now >= acct[a].cooldown_until
                        /\ acct'[a].status \notin CooldownStatuses
                        /\ acct[a].status \in CooldownStatuses
                               => acct'[a].status = ACTIVE
              /\ (acct'[a].status \in CooldownStatuses
                      /\ acct'[a].status # acct[a].status)
                     => /\ lastOp'.op = "report"
                        /\ lastOp'.acct = a
                        /\ acct'[a].cooldown_until =
                               now + (IF acct'[a].status = COOLDOWN_429 THEN Cooldown429
                                      ELSE IF acct'[a].status = COOLDOWN_403
                                      THEN Cooldown403 ELSE Cooldown401)]_vars

\* An account whose only error report was a cooldown code was acquired
\* after the deadline had passed: it is active again with no deadline
ElapsedCooldownCleared ==
    /\ lastOp.op = "acquire"
    /\ lastOp.res = "ok"
    /\ lastOp.acct \in Range(accounts)
    /\ streak[lastOp.acct] = -1
    /\ acct[lastOp.acct].error_count = 1
    /\ acct[lastOp.acct].status = ACTIVE
    /\ acct[lastOp.acct].cooldown_until = 0

====
